---------------------------- MODULE Spec2Model ----------------------------
(***************************************************************************)
(* A model of the core of velib-mcp: the TTL cache (data/cache.rs), the    *)
(* two retry loops (data/retry.rs, retry.rs), the circuit breaker          *)
(* (retry.rs), the data client's cache-or-fetch logic (data/client.rs) and *)
(* the request handlers' use of the client lock and the five tools         *)
(* (mcp/handlers.rs).                                                      *)
(*                                                                         *)
(* Each component has its own specification over the shared variables:     *)
(*   SpecCache    InMemoryCache operations under a clock                   *)
(*   SpecRetry    RetryPolicy::execute and retry_with_backoff              *)
(*   SpecCircuit  CircuitBreaker::call, one call at a time                 *)
(*   SpecBreaker  CircuitBreaker::call, concurrent calls interleaved       *)
(*   SpecClient   request handlers sharing one VelibDataClient             *)
(*   SpecPaging   one paginated fetch, under weak fairness                 *)
(*   SpecMerge    parsing the two feeds and merging them by station code   *)
(*   SpecTools    one call of a tool over the merged stations              *)
(*   SpecFetch    one paginated fetch of a feed, page by page              *)
(***************************************************************************)
EXTENDS Integers, Sequences, FiniteSets, TLC

VARIABLES
    now,            \* the clock read by Utc::now() / Instant::now()
    \* ---- InMemoryCache (SpecCache)
    entries,        \* InMemoryCache.entries: HashMap<K, CacheEntry<V>>
    c_last,         \* the last cache operation and what it returned
    c_ins,          \* per key: the last positive-TTL insert still standing
    \* ---- retry loops (SpecRetry)
    ex,             \* RetryPolicy::execute: the locals of one call
    rb,             \* retry_with_backoff: the locals of one call
    \* ---- CircuitBreaker (SpecCircuit)
    cb,             \* CircuitBreaker fields: state, until, consecutive_failures
    cb_cfg,         \* failure_threshold, recovery_timeout_ms
    cb_call,        \* per caller: where its call() stands
    cb_log,         \* what the last step of a call() did
    \* ---- VelibDataClient behind Arc<RwLock<..>> (SpecClient)
    reference_cache,\* VelibDataClient.reference_cache entries
    realtime_cache, \* VelibDataClient.realtime_cache entries
    dc_lock,        \* the RwLock around the data client: writer and readers
    h_pc,           \* per request handler: its position
    cl,             \* the locals of the get_all_stations call in progress
    \* ---- the records of one get_all_stations(true) (SpecMerge)
    mg,             \* upstream records, parsed snapshots, merged stations
    \* ---- one tool call of McpToolHandler (SpecTools)
    tc,             \* its input, position, fetched stations and output
    \* ---- one fetch_reference_stations / fetch_realtime_status (SpecFetch)
    fd              \* the upstream feed, the requests sent, the records kept

cacheVars   == <<entries, c_last, c_ins>>
retryVars   == <<ex, rb>>
circuitVars == <<cb, cb_cfg, cb_call, cb_log>>
clientVars  == <<reference_cache, realtime_cache, dc_lock, h_pc, cl>>
vars        == <<now, cacheVars, retryVars, circuitVars, clientVars, mg, tc, fd>>

\* what the actions of one component leave alone
NotCache   == <<retryVars, circuitVars, clientVars, mg, tc, fd>>
NotRetry   == <<cacheVars, circuitVars, clientVars, mg, tc, fd>>
NotCircuit == <<cacheVars, retryVars, clientVars, mg, tc, fd>>
NotClient  == <<cacheVars, circuitVars, rb, mg, tc, fd>>
NotMerge   == <<now, cacheVars, retryVars, circuitVars, clientVars, tc, fd>>
NotTools   == <<now, cacheVars, retryVars, circuitVars, clientVars, mg, fd>>
NotFetch   == <<cacheVars, retryVars, circuitVars, mg, tc>>

(***************************************************************************)
(* Bounds of the model                                                     *)
(***************************************************************************)
MaxTime == 4        \* the clock runs over 0..MaxTime
MaxTtl == 2         \* explicit TTLs range over -1..MaxTtl
NumValues == 2      \* cached values are 1..NumValues
DefaultTtl == 2     \* the default_ttl the cache of SpecCache is built with

MaxAttempts == 3    \* small retry budgets range over 0..MaxAttempts
MaxBaseDelay == 2   \* base_delay_seconds ranges over 0..MaxBaseDelay
MaxMaxDelay == 4    \* max_delay_seconds ranges over 0..MaxMaxDelay, by steps of 2
MaxThreshold == 3   \* failure_threshold ranges over 1..MaxThreshold
MaxRecovery == 2    \* recovery_timeout_ms ranges over 0..MaxRecovery
MaxCalls == 6       \* CircuitBreaker::call is entered at most MaxCalls times
NumCallers == 2     \* the tasks that call the circuit breaker
MaxClientTime == 6  \* the clock of SpecClient runs over 0..MaxClientTime (minutes)
MaxClientAttempts == 1 \* the client's max_attempts ranges over 0..MaxClientAttempts
MaxPages == 1       \* the pages of a fetch the model records
NumHandlers == 2    \* concurrent request handlers
MaxRecords == 2     \* records per upstream page (SpecMerge)
MaxStations == 3    \* stations get_all_stations returns to a tool (SpecTools)
MaxFullPages == 2   \* full pages of an upstream feed (SpecFetch)

Times == 0..MaxTime
Keys == {"k1", "k2"}
Values == 1..NumValues
Ttls == (-1)..MaxTtl

(***************************************************************************)
(* Option<T>                                                               *)
(***************************************************************************)
None == [tag |-> "None"]
Some(v) == [tag |-> "Some", val |-> v]

(***************************************************************************)
(* data/cache.rs: CacheEntry and InMemoryCache.  A HashMap is a function   *)
(* whose domain is the set of keys present.                                *)
(***************************************************************************)
EmptyMap == [x \in {} |-> None]

\* CacheEntry::new(data, ttl): expires_at = Utc::now() + ttl
CacheEntry_new(data, ttl, t) == [data |-> data, expires_at |-> t + ttl]

\* CacheEntry::is_expired: Utc::now() > self.expires_at
is_expired(entry, t) == t > entry.expires_at

\* InMemoryCache::get
InMemoryCache_get(m, key, t) ==
    IF key \in DOMAIN m /\ ~is_expired(m[key], t)
    THEN Some(m[key].data)
    ELSE None

HashMap_insert_keep(m, key, entry) ==
    IF key \in DOMAIN m THEN m
    ELSE [x \in DOMAIN m \cup {key} |-> IF x = key THEN entry ELSE m[x]]

\* HashMap::insert: the new entry replaces any old one under the key
HashMap_insert(m, key, entry) ==
    [x \in DOMAIN m \cup {key} |-> IF x = key THEN entry ELSE m[x]]

\* InMemoryCache::insert_with_ttl (insert is the same with default_ttl)
InMemoryCache_insert_with_ttl(m, key, value, ttl, t) ==
    HashMap_insert(m, key, CacheEntry_new(value, ttl, t))

\* InMemoryCache::remove: the map without the key, and the removed value
InMemoryCache_remove(m, key) == [x \in DOMAIN m \ {key} |-> m[x]]
InMemoryCache_removed(m, key) ==
    IF key \in DOMAIN m THEN Some(m[key].data) ELSE None

\* InMemoryCache::cleanup_expired: entries.retain(|_, e| e.expires_at > now)
InMemoryCache_cleanup_expired(m, t) ==
    [x \in {k \in DOMAIN m : m[k].expires_at > t} |-> m[x]]

\* InMemoryCache::size
InMemoryCache_size(m) == Cardinality(DOMAIN m)

\* InMemoryCache::clear
InMemoryCache_clear(m) == EmptyMap

(***************************************************************************)
(* SpecCache: one InMemoryCache<K, V> built with default_ttl = DefaultTtl, *)
(* its operations called one after another while the clock advances.       *)
(***************************************************************************)
\* what an insert leaves in c_ins: the value and the instant its TTL elapses
InsNote(key, value, ttl) ==
    [c_ins EXCEPT ![key] =
        IF ttl > 0 THEN Some([value |-> value, until |-> now + ttl]) ELSE None]

CacheGet(key) ==
    /\ c_last' = [op |-> "get", key |-> key,
                  result |-> InMemoryCache_get(entries, key, now)]
    /\ UNCHANGED <<now, entries, c_ins, NotCache>>

CacheInsert(key, value) ==
    /\ entries' = InMemoryCache_insert_with_ttl(entries, key, value, DefaultTtl, now)
    /\ c_ins' = InsNote(key, value, DefaultTtl)
    /\ c_last' = [op |-> "insert", key |-> key, result |-> None]
    /\ UNCHANGED <<now, NotCache>>

CacheInsertWithTtl(key, value, ttl) ==
    /\ entries' = InMemoryCache_insert_with_ttl(entries, key, value, ttl, now)
    /\ c_ins' = InsNote(key, value, ttl)
    /\ c_last' = [op |-> "insert_with_ttl", key |-> key, result |-> None]
    /\ UNCHANGED <<now, NotCache>>

CacheRemove(key) ==
    /\ entries' = InMemoryCache_remove(entries, key)
    /\ c_ins' = [c_ins EXCEPT ![key] = None]
    /\ c_last' = [op |-> "remove", key |-> key,
                  result |-> InMemoryCache_removed(entries, key)]
    /\ UNCHANGED <<now, NotCache>>

CacheCleanupExpired ==
    /\ entries' = InMemoryCache_cleanup_expired(entries, now)
    /\ c_ins' = [k \in Keys |-> IF k \in DOMAIN entries' THEN c_ins[k] ELSE None]
    /\ c_last' = [op |-> "cleanup_expired", key |-> "", result |-> None]
    /\ UNCHANGED <<now, NotCache>>

CacheSize ==
    /\ c_last' = [op |-> "size", key |-> "",
                  result |-> Some(InMemoryCache_size(entries))]
    /\ UNCHANGED <<now, entries, c_ins, NotCache>>

CacheClear ==
    /\ entries' = InMemoryCache_clear(entries)
    /\ c_ins' = [k \in Keys |-> None]
    /\ c_last' = [op |-> "clear", key |-> "", result |-> None]
    /\ UNCHANGED <<now, NotCache>>

\* the clock advances between two operations
CacheTick ==
    /\ now < MaxTime
    /\ now' = now + 1
    /\ c_last' = [op |-> "tick", key |-> "", result |-> None]
    /\ UNCHANGED <<entries, c_ins, NotCache>>

InitCache ==
    /\ entries = EmptyMap
    /\ c_last = [op |-> "new", key |-> "", result |-> None]
    /\ c_ins = [k \in Keys |-> None]

NextCache ==
    \/ \E k \in Keys : CacheGet(k)
    \/ \E k \in Keys, v \in Values : CacheInsert(k, v)
    \/ \E k \in Keys, v \in Values, ttl \in Ttls : CacheInsertWithTtl(k, v, ttl)
    \/ \E k \in Keys : CacheRemove(k)
    \/ CacheCleanupExpired
    \/ CacheSize
    \/ CacheClear
    \/ CacheTick

(***************************************************************************)
(* error.rs: the Error values the retry loops classify.  An Http error     *)
(* carries the response status the classifier of data/retry.rs reads       *)
(* (NoStatus for a network error), a RateLimited error its retry-after.    *)
(***************************************************************************)
NoStatus == 0
Err(kind) == [kind |-> kind, status |-> NoStatus, retry_after |-> None]
HttpErr(status) == [kind |-> "Http", status |-> status, retry_after |-> None]
RateLimitedErr(ra) == [kind |-> "RateLimited", status |-> NoStatus, retry_after |-> ra]

Errors ==
    { HttpErr(NoStatus), HttpErr(503), HttpErr(404),
      RateLimitedErr(Some(1)), RateLimitedErr(None),
      Err("Validation"), Err("StationNotFound"), Err("McpProtocol"),
      Err("Json"), Err("Internal"), Err("Cache"), Err("Timeout"),
      Err("RateLimit"), Err("InvalidCoordinates") }

Ok(v) == [tag |-> "Ok", val |-> v]
Failed(e) == [tag |-> "Err", err |-> e]
NoResult == [tag |-> "None"]

\* RetryPolicy::is_retryable_error (data/retry.rs)
is_retryable_error(e) ==
    CASE e.kind = "Http" ->
            IF e.status # NoStatus
            THEN e.status \in {429, 500, 502, 503, 504}
            ELSE TRUE
      [] e.kind = "RateLimited" -> TRUE
      [] OTHER -> FALSE

\* Error::is_retryable (error.rs)
Error_is_retryable(e) ==
    e.kind \in {"Http", "Timeout", "Cache", "Internal", "RateLimited"}

(***************************************************************************)
(* data/retry.rs: RetryStrategy::calculate_delay on u64.  2_u64.pow(n)     *)
(* leaves u64 from n = 64 on, and base_delay * 2^n when                    *)
(* base_delay >= 2^(64 - n): a build with overflow checks panics there, a  *)
(* build without them wraps.  All of it is computed without leaving        *)
(* 32 bits, for base_delay and max_delay below 2^30.                       *)
(***************************************************************************)
U64_BITS == 64

Min(a, b) == IF a < b THEN a ELSE b

\* min(2^n, cap), for 1 <= cap <= 2^30
Pow2Capped(n, cap) == IF n >= 30 THEN cap ELSE Min(2 ^ n, cap)

\* 2_u64.pow(attempt) overflows
PowOverflows(attempt) == attempt >= U64_BITS

\* base_delay * 2_u64.pow(attempt) overflows (the power itself does not)
MulOverflows(base_delay, attempt) ==
    /\ attempt < U64_BITS
    /\ U64_BITS - attempt <= 30
    /\ base_delay >= 2 ^ (U64_BITS - attempt)

DelayOverflows(base_delay, attempt) ==
    PowOverflows(attempt) \/ MulOverflows(base_delay, attempt)

\* min(base_delay * 2^attempt, max_delay), the multiplication wrapping
BackoffSeconds(base_delay, max_delay, attempt) ==
    IF PowOverflows(attempt) THEN 0
    ELSE IF MulOverflows(base_delay, attempt)
         THEN IF base_delay % (2 ^ (U64_BITS - attempt)) = 0 THEN 0 ELSE max_delay
         ELSE Min(base_delay * Pow2Capped(attempt, max_delay + 1), max_delay)

\* the jitter values (delay * 0.25 * r).round() takes for r in [0, 1)
JitterSet(delay, use_jitter) ==
    IF use_jitter THEN {j \in 0..delay : 4 * j < delay + 2} ELSE {0}

\* RetryStrategy::calculate_delay: the delays it can return
calculate_delay(cfg, attempt) ==
    LET d == BackoffSeconds(cfg.base_delay_seconds, cfg.max_delay_seconds, attempt)
    IN {d + j : j \in JitterSet(d, cfg.use_jitter)}

(***************************************************************************)
(* data/retry.rs: RetryPolicy::execute, one step per await point: the      *)
(* operation's future (ExecuteInvoke) and the backoff sleep (ExecuteWake). *)
(***************************************************************************)
ExecuteConfigs ==
    [max_attempts : (0..MaxAttempts) \cup {U64_BITS + 1},
     base_delay_seconds : 0..MaxBaseDelay,
     max_delay_seconds : {2 * i : i \in 0..(MaxMaxDelay \div 2)},
     use_jitter : BOOLEAN]

ExIdle ==
    [pc |-> "idle", cfg |-> None, overflow_checks |-> FALSE, attempt |-> 0,
     last_error |-> None, result |-> NoResult, calls |-> 0, sleeps |-> 0,
     delay |-> 0, outcome |-> NoResult, only_retryable |-> TRUE]

\* execute is entered
ExecuteEnter(cfg, checks) ==
    /\ ex.pc = "idle"
    /\ ex' = [ex EXCEPT !.pc = "call", !.cfg = cfg, !.overflow_checks = checks]

\* a call of execute: the policy's configuration and the build are inputs
ExecuteStart ==
    /\ rb.pc = "idle"
    /\ \E cfg \in ExecuteConfigs, checks \in BOOLEAN : ExecuteEnter(cfg, checks)
    /\ UNCHANGED <<now, rb, NotRetry>>

\* the loop body without its test of the error's class
ExecuteAfterError_unclassified(e, d) ==
    LET x == [ex EXCEPT !.last_error = Some(e), !.calls = @ + 1,
                        !.outcome = Failed(e),
                        !.only_retryable = @ /\ is_retryable_error(e)]
    IN  IF ex.attempt = ex.cfg.max_attempts
        THEN [x EXCEPT !.pc = "done", !.result = Failed(e)]
        ELSE [x EXCEPT !.pc = "sleep", !.delay = d]

\* the loop body going to the next iteration without its backoff sleep
ExecuteAfterError_nosleep(e, d) ==
    LET x == [ex EXCEPT !.last_error = Some(e), !.calls = @ + 1,
                        !.outcome = Failed(e),
                        !.only_retryable = @ /\ is_retryable_error(e)]
    IN  IF ex.attempt = ex.cfg.max_attempts
        THEN [x EXCEPT !.pc = "done", !.result = Failed(e)]
        ELSE IF ~is_retryable_error(e)
        THEN [x EXCEPT !.pc = "done", !.result = Failed(e)]
        ELSE [x EXCEPT !.pc = "call", !.attempt = @ + 1]

\* the loop body after operation().await returned Err(e)
ExecuteAfterError(e, d) ==
    LET x == [ex EXCEPT !.last_error = Some(e), !.calls = @ + 1,
                        !.outcome = Failed(e),
                        !.only_retryable = @ /\ is_retryable_error(e)]
    IN  IF ex.attempt = ex.cfg.max_attempts
        THEN [x EXCEPT !.pc = "done", !.result = Failed(e)]
        ELSE IF ~is_retryable_error(e)
        THEN [x EXCEPT !.pc = "done", !.result = Failed(e)]
        ELSE IF DelayOverflows(ex.cfg.base_delay_seconds, ex.attempt)
                /\ ex.overflow_checks
        THEN [x EXCEPT !.pc = "panicked"]
        ELSE [x EXCEPT !.pc = "sleep", !.delay = d]

\* operation().await: it completes with Ok(v) or Err(e), or the operation's
\* future never resolves (execute sets no timer beside it, and the requests
\* of RetryableHttpClient are sent by reqwest::Client::new(), which has no
\* timeout): pc "pending" is execute waiting on such a future.  calls counts
\* the invocations that returned.
ExecuteInvoke ==
    /\ ex.pc = "call"
    /\ \/ \E v \in Values :
            ex' = [ex EXCEPT !.pc = "done", !.result = Ok(v), !.calls = @ + 1,
                             !.outcome = Ok(v)]
       \/ \E e \in Errors, d \in calculate_delay(ex.cfg, ex.attempt) :
            ex' = ExecuteAfterError(e, d)
       \/ ex' = [ex EXCEPT !.pc = "pending"]
    /\ UNCHANGED <<now, rb, NotRetry>>

\* sleep(delay).await completes: the next iteration of the for loop
ExecuteWake ==
    /\ ex.pc = "sleep"
    /\ ex' = [ex EXCEPT !.pc = "call", !.attempt = @ + 1, !.sleeps = @ + 1]
    /\ UNCHANGED <<now, rb, NotRetry>>

(***************************************************************************)
(* error.rs: Error::retry_delay_ms, and retry.rs: retry_with_backoff, one  *)
(* step per await point: the timed operation (RetryInvoke) and the backoff *)
(* sleep (RetryWake).                                                      *)
(***************************************************************************)
RetryExhaustedErr(operation, n) ==
    [kind |-> "RetryExhausted", status |-> NoStatus, retry_after |-> None,
     operation |-> operation, attempts |-> n]
TimeoutErr(operation, ms) ==
    [kind |-> "Timeout", status |-> NoStatus, retry_after |-> None,
     operation |-> operation, timeout_ms |-> ms]

\* the values of fastrand::u64(0..=1000) the model draws
JitterMs == {0, 500, 1000}

\* the base delay retry_delay_ms picks for an error
BaseDelayMs(e) ==
    CASE e.kind = "Http" -> 1000
      [] e.kind = "Timeout" -> 2000
      [] e.kind = "Cache" -> 500
      [] e.kind = "Internal" -> 1500
      [] e.kind = "RateLimited" ->
            IF e.retry_after = None THEN 5000 ELSE e.retry_after.val * 1000
      [] OTHER -> 1000

\* Error::retry_delay_ms: the delays it can return
retry_delay_ms(e, attempt) ==
    {Min(BaseDelayMs(e) * (2 ^ Min(attempt, 10)) + j, 30000) : j \in JitterMs}

RetryConfigs ==
    [max_attempts : 0..MaxAttempts,
     base_delay_ms : {1, 1000},
     max_delay_ms : {10, 10000},
     timeout_ms : {30000}]

\* the operation names retry_with_backoff is called with
OperationNames == {"http_request", "cache_read"}

RbIdle ==
    [pc |-> "idle", operation_name |-> "", cfg |-> None, attempt |-> 0,
     last_error |-> None,
     result |-> NoResult, calls |-> 0, sleeps |-> 0, delay |-> 0,
     outcome |-> NoResult]

\* retry_with_backoff is entered; with max_attempts = 0 the for loop has no
\* iteration and the function falls through to RetryExhausted
RetryStart ==
    /\ rb.pc = "idle"
    /\ ex.pc = "idle"
    /\ \E operation_name \in OperationNames, cfg \in RetryConfigs :
          rb' = IF cfg.max_attempts = 0
                THEN [rb EXCEPT !.pc = "done", !.operation_name = operation_name,
                                !.cfg = cfg,
                                !.result = Failed(RetryExhaustedErr(operation_name,
                                                                    cfg.max_attempts))]
                ELSE [rb EXCEPT !.pc = "call", !.operation_name = operation_name,
                                !.cfg = cfg]
    /\ UNCHANGED <<now, ex, NotRetry>>

\* the loop ending with the last error instead of RetryExhausted
RetryAfterFailure_last_error(x, d) ==
    IF rb.attempt + 1 < rb.cfg.max_attempts
    THEN [x EXCEPT !.pc = "sleep", !.delay = d]
    ELSE [x EXCEPT !.pc = "done", !.result = Failed(x.last_error.val)]

\* what follows the sleep decision of an iteration: the sleep, or, after the
\* last iteration, the end of the loop and RetryExhausted
RetryAfterFailure(x, d) ==
    IF rb.attempt + 1 < rb.cfg.max_attempts
    THEN [x EXCEPT !.pc = "sleep", !.delay = d]
    ELSE [x EXCEPT !.pc = "done",
                   !.result = Failed(RetryExhaustedErr(rb.operation_name,
                                                       rb.cfg.max_attempts))]

\* the match arm Ok(Err(error))
RetryAfterError(e, d) ==
    LET x == [rb EXCEPT !.last_error = Some(e), !.calls = @ + 1,
                        !.outcome = Failed(e)]
    IN  IF ~Error_is_retryable(e)
        THEN [x EXCEPT !.pc = "done", !.result = Failed(e)]
        ELSE RetryAfterFailure(x, d)

\* the timeout arm without its early return on the last attempt
RetryAfterTimeout_exhausted ==
    LET te == TimeoutErr(rb.operation_name, rb.cfg.timeout_ms)
        x == [rb EXCEPT !.calls = @ + 1, !.outcome = Failed(te),
                        !.last_error = Some(te)]
    IN  RetryAfterFailure(x, Min(rb.cfg.base_delay_ms * (2 ^ Min(rb.attempt, 10)),
                                 rb.cfg.max_delay_ms))

\* the match arm Err(_): the attempt outlived timeout_ms
RetryAfterTimeout ==
    LET te == TimeoutErr(rb.operation_name, rb.cfg.timeout_ms)
        x == [rb EXCEPT !.calls = @ + 1, !.outcome = Failed(te)]
    IN  IF ~Error_is_retryable(te) \/ rb.attempt + 1 >= rb.cfg.max_attempts
        THEN [x EXCEPT !.pc = "done", !.result = Failed(te)]
        ELSE [x EXCEPT !.last_error = Some(te), !.pc = "sleep",
                       !.delay = Min(rb.cfg.base_delay_ms * (2 ^ Min(rb.attempt, 10)),
                                     rb.cfg.max_delay_ms)]

\* timeout(timeout_ms, operation()).await completes
RetryInvoke ==
    /\ rb.pc = "call"
    /\ \/ \E v \in Values :
            rb' = [rb EXCEPT !.pc = "done", !.result = Ok(v), !.calls = @ + 1,
                             !.outcome = Ok(v)]
       \/ \E e \in Errors : \E d \in retry_delay_ms(e, rb.attempt) :
            rb' = RetryAfterError(e, Min(d, rb.cfg.max_delay_ms))
       \/ rb' = RetryAfterTimeout
    /\ UNCHANGED <<now, ex, NotRetry>>

\* sleep(delay_ms).await completes: the next iteration of the for loop
RetryWake ==
    /\ rb.pc = "sleep"
    /\ rb' = [rb EXCEPT !.pc = "call", !.attempt = @ + 1, !.sleeps = @ + 1]
    /\ UNCHANGED <<now, ex, NotRetry>>

(***************************************************************************)
(* SpecRetry: one call of either loop, for every configuration and every   *)
(* behaviour of the operation.                                             *)
(***************************************************************************)
InitRetry == ex = ExIdle /\ rb = RbIdle

NextRetry ==
    \/ ExecuteStart
    \/ ExecuteInvoke
    \/ ExecuteWake
    \/ RetryStart
    \/ RetryInvoke
    \/ RetryWake

(***************************************************************************)
(* retry.rs: CircuitBreaker.  call() is two steps: the check of the state  *)
(* under the mutex, which rejects the call or starts the operation         *)
(* (CircuitEnter), and the completion of operation().await, which records  *)
(* the outcome (CircuitFinish).                                            *)
(***************************************************************************)
Callers == 1..NumCallers

\* CircuitBreaker::new
CircuitBreaker_new(failure_threshold, recovery_timeout_ms) ==
    /\ cb = [state |-> "Closed", until |-> 0, consecutive_failures |-> 0]
    /\ cb_cfg = [failure_threshold |-> failure_threshold,
                 recovery_timeout_ms |-> recovery_timeout_ms]

\* the error an open circuit answers with
CircuitOpenErr == [kind |-> "Internal", status |-> NoStatus, retry_after |-> None,
                   message |-> "Circuit breaker is open"]

DeadlineReached_late(t, until) == t + 1 >= until

\* Instant::now() >= until
DeadlineReached(t, until) == t >= until

\* the state after the check at the head of call(); Open before its deadline
\* is left as it is and the call is rejected
StateAfterCheck(c, t) ==
    IF c.state = "Open" /\ DeadlineReached(t, c.until)
    THEN [c EXCEPT !.state = "HalfOpen"]
    ELSE c

Rejects(c, t) == c.state = "Open" /\ ~DeadlineReached(t, c.until)

CircuitEnter(caller) ==
    /\ cb_call[caller] = "idle"
    /\ cb_log.started < MaxCalls
    /\ cb' = StateAfterCheck(cb, now)
    /\ IF Rejects(cb, now)
       THEN /\ cb_call' = cb_call
            /\ cb_log' = [cb_log EXCEPT !.last = "rejected", !.caller = caller,
                                        !.started = @ + 1,
                                        !.result = Failed(CircuitOpenErr)]
       ELSE /\ cb_call' = [cb_call EXCEPT ![caller] = "running"]
            /\ cb_log' = [cb_log EXCEPT !.last = "admitted", !.caller = caller,
                                        !.started = @ + 1, !.invoked = @ + 1,
                                        !.result = NoResult]
    /\ UNCHANGED <<now, cb_cfg, NotCircuit>>

OnSuccess_keep_count(c) == [c EXCEPT !.state = "Closed"]

\* the arm Ok(result): the counter is reset and the circuit closed
OnSuccess(c) == [c EXCEPT !.consecutive_failures = 0, !.state = "Closed"]

OnFailure_above(c, cfg, t) ==
    LET failures == c.consecutive_failures + 1
    IN  IF failures > cfg.failure_threshold
        THEN [c EXCEPT !.consecutive_failures = failures, !.state = "Open",
                       !.until = t + cfg.recovery_timeout_ms]
        ELSE [c EXCEPT !.consecutive_failures = failures]

\* the arm Err(error): fetch_add(1) + 1, and the circuit opens at the threshold
OnFailure(c, cfg, t) ==
    LET failures == c.consecutive_failures + 1
    IN  IF failures >= cfg.failure_threshold
        THEN [c EXCEPT !.consecutive_failures = failures, !.state = "Open",
                       !.until = t + cfg.recovery_timeout_ms]
        ELSE [c EXCEPT !.consecutive_failures = failures]

CircuitFinish(caller) ==
    /\ cb_call[caller] = "running"
    /\ cb_call' = [cb_call EXCEPT ![caller] = "idle"]
    /\ \/ \E v \in Values :
            /\ cb' = OnSuccess(cb)
            /\ cb_log' = [cb_log EXCEPT !.last = "ok", !.caller = caller,
                                        !.streak = 0, !.result = Ok(v)]
       \/ \E e \in Errors :
            /\ cb' = OnFailure(cb, cb_cfg, now)
            /\ cb_log' = [cb_log EXCEPT !.last = "failed", !.caller = caller,
                                        !.streak = @ + 1, !.result = Failed(e)]
    /\ UNCHANGED <<now, cb_cfg, NotCircuit>>

\* the clock advances
CircuitTick ==
    /\ now < MaxTime
    /\ now' = now + 1
    /\ cb_log' = [cb_log EXCEPT !.last = "tick"]
    /\ UNCHANGED <<cb, cb_cfg, cb_call, NotCircuit>>

InitCircuit ==
    /\ \E th \in 1..MaxThreshold, rt \in 0..MaxRecovery : CircuitBreaker_new(th, rt)
    /\ cb_call = [c \in Callers |-> "idle"]
    /\ cb_log = [last |-> "new", caller |-> 0, started |-> 0, invoked |-> 0,
                 streak |-> 0, result |-> NoResult]

NoCallRunning == \A c \in Callers : cb_call[c] = "idle"

\* a call is entered when no other is under way
CircuitEnterNext(caller) == NoCallRunning /\ CircuitEnter(caller)

\* SpecCircuit: the calls follow one another, none starts before the last ended
NextCircuit ==
    \/ \E c \in Callers : CircuitEnterNext(c)
    \/ \E c \in Callers : CircuitFinish(c)
    \/ CircuitTick

(***************************************************************************)
(* retry.rs: CircuitBreaker shared by concurrent calls.  The state sits    *)
(* behind a Mutex and the failure counter is an AtomicU32, so a call() is  *)
(* a sequence of atomic steps that other calls interleave with: the check  *)
(* of the state under the mutex (CallCheck), then, as operation().await    *)
(* returns, store(0) (CallSucceeds) followed by the locked write of Closed *)
(* (CallClose), or fetch_add(1) (CallFails) followed, at the threshold, by *)
(* the locked write of Open (CallOpen).  cb_call[c].trial marks the call   *)
(* that found the circuit Open past its deadline and made it HalfOpen.     *)
(***************************************************************************)
CallIdle == [pc |-> "idle", trial |-> FALSE]

\* call(): the block under the first lock, up to operation()
CallCheck(caller) ==
    /\ cb_call[caller].pc = "idle"
    /\ cb_log.started < MaxCalls
    /\ cb' = StateAfterCheck(cb, now)
    /\ IF Rejects(cb, now)
       THEN /\ cb_call' = cb_call
            /\ cb_log' = [cb_log EXCEPT !.last = "rejected", !.caller = caller,
                                        !.started = @ + 1]
       ELSE /\ cb_call' = [cb_call EXCEPT ![caller] =
                              [pc |-> "running", trial |-> cb.state = "Open"]]
            /\ cb_log' = [cb_log EXCEPT !.last = "admitted", !.caller = caller,
                                        !.started = @ + 1, !.invoked = @ + 1]
    /\ UNCHANGED <<now, cb_cfg, NotCircuit>>

\* the arm Ok(result), first half: consecutive_failures.store(0)
CallSucceeds(caller) ==
    /\ cb_call[caller].pc = "running"
    /\ cb' = [cb EXCEPT !.consecutive_failures = 0]
    /\ cb_call' = [cb_call EXCEPT ![caller].pc = "closing"]
    /\ cb_log' = [cb_log EXCEPT !.last = "stored", !.caller = caller]
    /\ UNCHANGED <<now, cb_cfg, NotCircuit>>

\* the arm Ok(result), second half: *state = Closed under the lock, return
CallClose(caller) ==
    /\ cb_call[caller].pc = "closing"
    /\ cb' = [cb EXCEPT !.state = "Closed"]
    /\ cb_call' = [cb_call EXCEPT ![caller] = CallIdle]
    /\ cb_log' = [cb_log EXCEPT !.last = "closed", !.caller = caller]
    /\ UNCHANGED <<now, cb_cfg, NotCircuit>>

\* the arm Err(error), first half: failures = fetch_add(1) + 1; below the
\* threshold the call returns the error at once
CallFails(caller) ==
    /\ cb_call[caller].pc = "running"
    /\ LET failures == cb.consecutive_failures + 1
       IN  /\ cb' = [cb EXCEPT !.consecutive_failures = failures]
           /\ cb_call' = [cb_call EXCEPT ![caller] =
                             IF failures >= cb_cfg.failure_threshold
                             THEN [@ EXCEPT !.pc = "opening"]
                             ELSE CallIdle]
    /\ cb_log' = [cb_log EXCEPT !.last = "counted", !.caller = caller]
    /\ UNCHANGED <<now, cb_cfg, NotCircuit>>

\* the arm Err(error), second half: *state = Open { until: now + recovery }
\* under the lock, return
CallOpen(caller) ==
    /\ cb_call[caller].pc = "opening"
    /\ cb' = [cb EXCEPT !.state = "Open",
                        !.until = now + cb_cfg.recovery_timeout_ms]
    /\ cb_call' = [cb_call EXCEPT ![caller] = CallIdle]
    /\ cb_log' = [cb_log EXCEPT !.last = "opened", !.caller = caller]
    /\ UNCHANGED <<now, cb_cfg, NotCircuit>>

InitBreaker ==
    /\ \E threshold \in 1..MaxThreshold, recovery \in 0..MaxRecovery :
          CircuitBreaker_new(threshold, recovery)
    /\ cb_call = [c \in Callers |-> CallIdle]
    /\ cb_log = [last |-> "new", caller |-> 0, started |-> 0, invoked |-> 0]

\* SpecBreaker: the calls of all callers interleave step by step
NextBreaker ==
    \/ \E c \in Callers : CallCheck(c)
    \/ \E c \in Callers : CallSucceeds(c)
    \/ \E c \in Callers : CallClose(c)
    \/ \E c \in Callers : CallFails(c)
    \/ \E c \in Callers : CallOpen(c)
    \/ CircuitTick

(***************************************************************************)
(* data/client.rs: VelibDataClient.  Every page request goes through       *)
(* RetryableHttpClient::get_with_query, that is RetryPolicy::execute (the  *)
(* actions ExecuteStart, ExecuteInvoke, ExecuteWake above, on ex).  A page *)
(* of the upstream is its content (the value of the response) and its      *)
(* size class: "full" (limit records), "short" (fewer) or "empty".         *)
(***************************************************************************)
REFERENCE_CACHE_TTL_MINUTES == 5
REALTIME_CACHE_TTL_MINUTES == 2
REFERENCE_KEY == "all_reference_stations"
REALTIME_KEY == "all_realtime_status"

Handlers == 1..NumHandlers
NoHandler == 0

ClientRetryConfigs ==
    [max_attempts : 0..MaxClientAttempts,
     base_delay_seconds : {1},
     max_delay_seconds : {2},
     use_jitter : {FALSE}]

FeedCache(feed) == IF feed = "reference" THEN reference_cache ELSE realtime_cache
FeedKey(feed) == IF feed = "reference" THEN REFERENCE_KEY ELSE REALTIME_KEY
FeedTtl(feed) ==
    IF feed = "reference" THEN REFERENCE_CACHE_TTL_MINUTES
    ELSE REALTIME_CACHE_TTL_MINUTES

\* the locals of a get_all_stations call; seen and failed note, per call, the
\* expired reference copy found by the first cache read and whether the
\* fetch of the reference feed failed
ClNew(cfg) ==
    [pc |-> "idle", cfg |-> cfg, include_realtime |-> FALSE, feed |-> "reference",
     acc |-> <<>>, reference |-> <<>>, result |-> NoResult,
     ref_present |-> FALSE, ref_stale |-> None, ref_failed |-> FALSE,
     rt_failed |-> FALSE]

\* the merged stations get_all_stations returns: the reference snapshot and,
\* when it was obtained, the real-time snapshot
Stations(reference, realtime) == [reference |-> reference, realtime |-> realtime]

CacheErr == [kind |-> "Cache", status |-> NoStatus, retry_after |-> None]

\* get_all_stations after get_reference_stations_with_fallback returned r
AfterReference(x, r) ==
    IF r.tag = "Err"
    THEN [x EXCEPT !.pc = "return", !.result = r]
    ELSE IF ~x.include_realtime
    THEN [x EXCEPT !.pc = "return", !.result = Ok(Stations(r.val, None))]
    ELSE [x EXCEPT !.pc = "check", !.feed = "realtime", !.reference = r.val,
                   !.acc = <<>>]

\* the Err arm handing the real-time error on, as `?` would
AfterRealtime_propagate(x, r) ==
    IF r.tag = "Err"
    THEN [x EXCEPT !.pc = "return", !.result = r]
    ELSE [x EXCEPT !.pc = "return",
                   !.result = Ok(Stations(x.reference, Some(r.val)))]

\* get_all_stations after get_realtime_status_with_fallback returned r
AfterRealtime(x, r) ==
    IF r.tag = "Err"
    THEN [x EXCEPT !.pc = "return", !.result = Ok(Stations(x.reference, None))]
    ELSE [x EXCEPT !.pc = "return",
                   !.result = Ok(Stations(x.reference, Some(r.val)))]

AfterFeed(x, r) ==
    IF x.feed = "reference" THEN AfterReference(x, r) ELSE AfterRealtime(x, r)

\* the Err arm of get_*_with_fallback: the cache is read again with get()
Fallback(m, key, t) ==
    LET cached == InMemoryCache_get(m, key, t)
    IN  IF cached # None THEN Ok(cached.val) ELSE Failed(CacheErr)

\* fetch_* returned Err: the fallback, then the rest of get_all_stations
AfterFetchError(x) ==
    AfterFeed([x EXCEPT !.ref_failed = @ \/ x.feed = "reference",
                        !.rt_failed = @ \/ x.feed = "realtime"],
              Fallback(FeedCache(x.feed), FeedKey(x.feed), now))

\* fetch_*: "Check cache first"
ClientCheckCache ==
    /\ cl.pc = "check"
    /\ LET m == FeedCache(cl.feed)
           key == FeedKey(cl.feed)
           cached == InMemoryCache_get(m, key, now)
           x == IF cl.feed = "reference"
                THEN [cl EXCEPT !.ref_present = key \in DOMAIN m,
                                !.ref_stale = IF key \in DOMAIN m /\ cached = None
                                              THEN Some(m[key].data) ELSE None]
                ELSE cl
       IN  cl' = IF cached # None
                 THEN AfterFeed(x, Ok(cached.val))
                 ELSE [x EXCEPT !.pc = "page", !.acc = <<>>]
    /\ UNCHANGED <<now, ex, reference_cache, realtime_cache, dc_lock, h_pc, NotClient>>

\* the head of the pagination loop: get_with_query enters execute
ClientSendPage ==
    /\ cl.pc = "page"
    /\ ExecuteEnter(cl.cfg, FALSE)
    /\ cl' = [cl EXCEPT !.pc = "await"]
    /\ UNCHANGED <<now, reference_cache, realtime_cache, dc_lock, h_pc, NotClient>>

\* the end of the loop writing the result into both caches
FeedFetched_both(acc) ==
    /\ cl' = AfterFeed(cl, Ok(acc))
    /\ reference_cache' =
          InMemoryCache_insert_with_ttl(reference_cache, REFERENCE_KEY, acc,
                                        REFERENCE_CACHE_TTL_MINUTES, now)
    /\ realtime_cache' =
          InMemoryCache_insert_with_ttl(realtime_cache, REALTIME_KEY, acc,
                                        REALTIME_CACHE_TTL_MINUTES, now)

\* the end of the pagination loop: the result is cached and returned
FeedFetched(acc) ==
    /\ cl' = AfterFeed(cl, Ok(acc))
    /\ IF cl.feed = "reference"
       THEN /\ reference_cache' =
                 InMemoryCache_insert_with_ttl(reference_cache, REFERENCE_KEY, acc,
                                               REFERENCE_CACHE_TTL_MINUTES, now)
            /\ UNCHANGED realtime_cache
       ELSE /\ realtime_cache' =
                 InMemoryCache_insert_with_ttl(realtime_cache, REALTIME_KEY, acc,
                                               REALTIME_CACHE_TTL_MINUTES, now)
            /\ UNCHANGED reference_cache

\* all_stations after the records of one more page were pushed; the model
\* keeps the first MaxPages pages and counts no further
Accumulate(acc, page) == IF Len(acc) < MaxPages THEN Append(acc, page) ELSE acc

\* get_with_query returned: the rest of one iteration of the pagination loop
ClientPageDone ==
    /\ cl.pc = "await"
    /\ ex.pc = "done"
    /\ ex' = ExIdle
    /\ IF ex.result.tag = "Err"
       THEN /\ cl' = AfterFetchError(cl)
            /\ UNCHANGED <<reference_cache, realtime_cache>>
       ELSE \/ \* response.json() fails, or "results" is no array
               /\ cl' = AfterFetchError(cl)
               /\ UNCHANGED <<reference_cache, realtime_cache>>
            \/ \* records.is_empty()
               FeedFetched(cl.acc)
            \/ \* records.len() < limit
               FeedFetched(Accumulate(cl.acc, ex.result.val))
            \/ \* a full page: offset += limit and the loop goes on
               /\ cl' = [cl EXCEPT !.pc = "page",
                                   !.acc = Accumulate(@, ex.result.val)]
               /\ UNCHANGED <<reference_cache, realtime_cache>>
    /\ UNCHANGED <<now, dc_lock, h_pc, NotClient>>

(***************************************************************************)
(* mcp/handlers.rs: McpToolHandler.  data_client is Arc<RwLock<..>>: the   *)
(* queries (find_nearby_stations, get_complete_stations, ...) take the     *)
(* write lock and keep it over get_all_stations(..).await; cache_stats and *)
(* cleanup_cache take the read lock.                                       *)
(***************************************************************************)
HIdle == [pc |-> "idle", op |-> "none"]

\* a request arrives at handler h and reaches data_client.write()/read()
HandlerStart(h) ==
    /\ h_pc[h].pc = "idle"
    /\ \E op \in {"query", "cache_stats", "cleanup_cache"} :
          h_pc' = [h_pc EXCEPT ![h] = [pc |-> "wait", op |-> op]]
    /\ UNCHANGED <<now, ex, reference_cache, realtime_cache, dc_lock, cl, NotClient>>

\* data_client.write().await is granted, get_all_stations(include_realtime)
\* is entered
HandlerAcquireWrite(h) ==
    /\ h_pc[h].pc = "wait"
    /\ h_pc[h].op = "query"
    /\ dc_lock.writer = NoHandler
    /\ dc_lock.readers = {}
    /\ dc_lock' = [dc_lock EXCEPT !.writer = h]
    /\ h_pc' = [h_pc EXCEPT ![h].pc = "running"]
    /\ \E include_realtime \in BOOLEAN :
          cl' = [ClNew(cl.cfg) EXCEPT !.pc = "check",
                                      !.include_realtime = include_realtime]
    /\ UNCHANGED <<now, ex, reference_cache, realtime_cache, NotClient>>

\* get_all_stations returned: the guard is dropped with the handler's frame
HandlerReleaseWrite(h) ==
    /\ h_pc[h].pc = "running"
    /\ h_pc[h].op = "query"
    /\ cl.pc = "return"
    /\ dc_lock' = [dc_lock EXCEPT !.writer = NoHandler]
    /\ h_pc' = [h_pc EXCEPT ![h] = HIdle]
    /\ cl' = ClNew(cl.cfg)
    /\ UNCHANGED <<now, ex, reference_cache, realtime_cache, NotClient>>

\* data_client.read().await is granted
HandlerAcquireRead(h) ==
    /\ h_pc[h].pc = "wait"
    /\ h_pc[h].op \in {"cache_stats", "cleanup_cache"}
    /\ dc_lock.writer = NoHandler
    /\ dc_lock' = [dc_lock EXCEPT !.readers = @ \cup {h}]
    /\ h_pc' = [h_pc EXCEPT ![h].pc = "running"]
    /\ UNCHANGED <<now, ex, reference_cache, realtime_cache, cl, NotClient>>

\* VelibDataClient::cache_stats
HandlerCacheStats(h) ==
    /\ h_pc[h].pc = "running"
    /\ h_pc[h].op = "cache_stats"
    /\ dc_lock' = [dc_lock EXCEPT !.readers = @ \ {h}]
    /\ h_pc' = [h_pc EXCEPT ![h] = HIdle]
    /\ UNCHANGED <<now, ex, reference_cache, realtime_cache, cl, NotClient>>

\* VelibDataClient::cleanup_cache
HandlerCleanupCache(h) ==
    /\ h_pc[h].pc = "running"
    /\ h_pc[h].op = "cleanup_cache"
    /\ reference_cache' = InMemoryCache_cleanup_expired(reference_cache, now)
    /\ realtime_cache' = InMemoryCache_cleanup_expired(realtime_cache, now)
    /\ dc_lock' = [dc_lock EXCEPT !.readers = @ \ {h}]
    /\ h_pc' = [h_pc EXCEPT ![h] = HIdle]
    /\ UNCHANGED <<now, ex, cl, NotClient>>

\* the clock advances
ClientTick ==
    /\ now < MaxClientTime
    /\ now' = now + 1
    /\ UNCHANGED <<ex, clientVars, NotClient>>

\* VelibDataClient::new / with_retry_config behind McpToolHandler::new
InitClient ==
    /\ reference_cache = EmptyMap
    /\ realtime_cache = EmptyMap
    /\ dc_lock = [writer |-> NoHandler, readers |-> {}]
    /\ h_pc = [h \in Handlers |-> HIdle]
    /\ \E cfg \in ClientRetryConfigs : cl = ClNew(cfg)

NextClient ==
    \/ \E h \in Handlers : HandlerStart(h)
    \/ \E h \in Handlers : HandlerAcquireWrite(h)
    \/ \E h \in Handlers : HandlerReleaseWrite(h)
    \/ \E h \in Handlers : HandlerAcquireRead(h)
    \/ \E h \in Handlers : HandlerCacheStats(h)
    \/ \E h \in Handlers : HandlerCleanupCache(h)
    \/ ClientCheckCache
    \/ ClientSendPage
    \/ ClientPageDone
    \/ ExecuteInvoke
    \/ ExecuteWake
    \/ ClientTick

(***************************************************************************)
(* data/client.rs: get_all_stations called on a client of one's own (no    *)
(* handler, no lock), one call after another, under weak fairness: a step  *)
(* that can be taken is taken.                                             *)
(***************************************************************************)
\* get_all_stations(include_realtime) is entered
PagingStart ==
    /\ cl.pc = "idle"
    /\ \E include_realtime \in BOOLEAN :
          cl' = [ClNew(cl.cfg) EXCEPT !.pc = "check",
                                      !.include_realtime = include_realtime]
    /\ UNCHANGED <<now, ex, reference_cache, realtime_cache, dc_lock, h_pc, NotClient>>

\* get_all_stations has returned to its caller
PagingReturn ==
    /\ cl.pc = "return"
    /\ cl' = ClNew(cl.cfg)
    /\ UNCHANGED <<now, ex, reference_cache, realtime_cache, dc_lock, h_pc, NotClient>>

NextPaging ==
    \/ PagingStart
    \/ PagingReturn
    \/ ClientCheckCache
    \/ ClientSendPage
    \/ ClientPageDone
    \/ ExecuteInvoke
    \/ ExecuteWake
    \/ ClientTick

(***************************************************************************)
(* data/client.rs and types.rs: the records of one get_all_stations(true). *)
(* An upstream record is a JSON object; a field is None when it is missing *)
(* or of the wrong type.  Station codes and names are "" or a letter, the  *)
(* coordinates "paris" or "elsewhere".                                     *)
(***************************************************************************)
U16_MODULUS == 65536
MAX_CAPACITY == 200

RefRecord(code, name, capacity, geo) ==
    [stationcode |-> code, name |-> name, capacity |-> capacity,
     coordonnees_geo |-> geo]

\* the records of the reference feed the model draws from
RefRecords ==
    { RefRecord(Some("a"), Some("A"), Some(2), Some("paris")),
      RefRecord(Some("b"), Some("B"), Some(1), Some("paris")),
      RefRecord(Some("a"), Some("A"), Some(1), Some("paris")),
      RefRecord(Some(""), Some("A"), Some(2), Some("paris")),
      RefRecord(Some("b"), Some("B"), Some(0), Some("paris")),
      RefRecord(Some("b"), Some("B"), Some(U16_MODULUS + MAX_CAPACITY + 1),
                Some("paris")),
      RefRecord(None, Some("A"), Some(2), Some("paris")),
      RefRecord(Some("a"), Some("A"), None, Some("elsewhere")) }

RtRecord(code, mechanical, ebike, docks) ==
    [stationcode |-> code, mechanical |-> mechanical, ebike |-> ebike,
     numdocksavailable |-> docks]

\* the records of the real-time feed the model draws from
RtRecords ==
    { RtRecord(Some("a"), Some(1), None, Some(1)),
      RtRecord(Some("a"), Some(2), Some(1), Some(1)),
      RtRecord(Some("c"), Some(0), Some(0), Some(1)),
      RtRecord(None, Some(1), Some(0), Some(1)) }

\* the sequences of at most n records of a set
Pages(records, n) == UNION {[1..k -> records] : k \in 0..n}

parse_reference_station_lenient(record) ==
    IF \/ record.stationcode = None
       \/ record.name = None
       \/ record.coordonnees_geo = None
    THEN Failed(Err("Validation"))
    ELSE Ok([station_code |-> record.stationcode.val,
             name |-> record.name.val,
             coordinates |-> record.coordonnees_geo.val,
             capacity |-> IF record.capacity = None THEN 0
                          ELSE record.capacity.val % U16_MODULUS])

\* VelibDataClient::parse_reference_station
parse_reference_station(record) ==
    IF \/ record.stationcode = None
       \/ record.name = None
       \/ record.capacity = None
       \/ record.coordonnees_geo = None
    THEN Failed(Err("Validation"))
    ELSE Ok([station_code |-> record.stationcode.val,
             name |-> record.name.val,
             coordinates |-> record.coordonnees_geo.val,
             capacity |-> record.capacity.val % U16_MODULUS])

\* record[field].as_u64().unwrap_or(0) as u16
U16OrZero(field) == IF field = None THEN 0 ELSE field.val % U16_MODULUS

\* VelibDataClient::parse_realtime_status
parse_realtime_status(record) ==
    IF record.stationcode = None
    THEN Failed(Err("Validation"))
    ELSE Ok([station_code |-> record.stationcode.val,
             status |-> [mechanical |-> U16OrZero(record.mechanical),
                         electric |-> U16OrZero(record.ebike),
                         available_docks |-> U16OrZero(record.numdocksavailable)]])

\* fetch_reference_stations: the stations pushed for the records of a page
ParsedReference(records) ==
    LET parsed == [i \in 1..Len(records) |-> parse_reference_station(records[i])]
        IsOk(r) == r.tag = "Ok"
        kept == SelectSeq(parsed, IsOk)
    IN  [i \in 1..Len(kept) |-> kept[i].val]

\* fetch_realtime_status: the map after all_status.insert for the records of
\* a page, a later record of a station code replacing an earlier one
ParsedRealtime(records) ==
    LET parsed == [i \in 1..Len(records) |-> parse_realtime_status(records[i])]
        ok == {i \in 1..Len(records) : parsed[i].tag = "Ok"}
        codes == {parsed[i].val.station_code : i \in ok}
        last(c) == CHOOSE i \in ok :
                      /\ parsed[i].val.station_code = c
                      /\ \A j \in ok : parsed[j].val.station_code = c => j <= i
    IN  [c \in codes |-> parsed[last(c)].val.status]

\* VelibStation::new
VelibStation_new(reference) == [reference |-> reference, real_time |-> None]

\* VelibStation::with_real_time
with_real_time(station, real_time) == [station EXCEPT !.real_time = Some(real_time)]

\* the inner join: stations without real-time status left out
MergeStations_inner(reference, realtime) ==
    LET HasStatus(r) == r.station_code \in DOMAIN realtime
        kept == SelectSeq(reference, HasStatus)
    IN  [i \in 1..Len(kept) |->
            with_real_time(VelibStation_new(kept[i]), realtime[kept[i].station_code])]

\* get_all_stations: reference_stations.into_iter().map(..).collect()
MergeStations(reference, realtime) ==
    [i \in 1..Len(reference) |->
        LET station == VelibStation_new(reference[i])
        IN  IF station.reference.station_code \in DOMAIN realtime
            THEN with_real_time(station, realtime[station.reference.station_code])
            ELSE station]

\* fetch_reference_stations parses the page the upstream answered with
MergeFetchReference ==
    /\ mg.pc = "reference"
    /\ mg' = [mg EXCEPT !.pc = "realtime",
                        !.reference = ParsedReference(mg.ref_records)]
    /\ UNCHANGED NotMerge

\* fetch_realtime_status parses the page the upstream answered with
MergeFetchRealtime ==
    /\ mg.pc = "realtime"
    /\ mg' = [mg EXCEPT !.pc = "merge",
                        !.realtime = ParsedRealtime(mg.rt_records)]
    /\ UNCHANGED NotMerge

\* get_all_stations merges the two snapshots and returns
MergeReturn ==
    /\ mg.pc = "merge"
    /\ mg' = [mg EXCEPT !.pc = "done",
                        !.stations = MergeStations(mg.reference, mg.realtime)]
    /\ UNCHANGED NotMerge

MgNew(ref_records, rt_records) ==
    [pc |-> "reference", ref_records |-> ref_records, rt_records |-> rt_records,
     reference |-> <<>>, realtime |-> EmptyMap, stations |-> <<>>]

InitMerge ==
    \E ref_records \in Pages(RefRecords, MaxRecords) :
       \E rt_records \in Pages(RtRecords, MaxRecords) :
          mg = MgNew(ref_records, rt_records)

IdleMerge == mg = MgNew(<<>>, <<>>)

NextMerge ==
    \/ MergeFetchReference
    \/ MergeFetchRealtime
    \/ MergeReturn

(***************************************************************************)
(* types.rs: Coordinates.  Latitudes and longitudes are whole multiples of *)
(* 0.00001 degrees, distances whole decimetres.                            *)
(***************************************************************************)
Coordinates_new(latitude, longitude) == [latitude |-> latitude, longitude |-> longitude]

\* PARIS_CITY_HALL: 48.8565 N, 2.3514 E
PARIS_CITY_HALL == Coordinates_new(4885650, 235140)

Abs(x) == IF x < 0 THEN -x ELSE x

\* Coordinates::distance_to, in decimetres.  One unit of latitude is
\* 6371000 * pi / 180 * 0.00001 m = 1.11195 m, one unit of longitude at the
\* latitude of Paris 0.73163 m; for points a few kilometres apart the
\* haversine distance is the length of the hypotenuse of the two.
distance_to(a, b) ==
    LET dlat == Abs(b.latitude - a.latitude)
        dlon == Abs(b.longitude - a.longitude)
        dy == dlat * 11 + (dlat * 1195) \div 10000
        dx == dlon * 7 + (dlon * 3163) \div 10000
    IN  IF dx = 0 THEN dy
        ELSE IF dy = 0 THEN dx
        ELSE CHOOSE d \in (IF dx > dy THEN dx ELSE dy)..(dx + dy) :
                /\ d * d <= dx * dx + dy * dy
                /\ (d + 1) * (d + 1) > dx * dx + dy * dy

\* `distance as u32`: a distance in decimetres truncated to whole metres
AsMetres(d) == d \div 10

is_valid_paris_metro_no_south(c) ==
    /\ c.latitude <= 4900000
    /\ c.longitude >= 200000
    /\ c.longitude <= 260000

\* Coordinates::is_valid_paris_metro: 48.7..49.0 N, 2.0..2.6 E
is_valid_paris_metro(c) ==
    /\ c.latitude >= 4870000
    /\ c.latitude <= 4900000
    /\ c.longitude >= 200000
    /\ c.longitude <= 260000

\* Coordinates::is_within_paris_service_area: at most 50 km from the city hall
is_within_paris_service_area(c) == distance_to(c, PARIS_CITY_HALL) <= 500000

\* the points requests are made from: the city hall, 71 m and 1000 m north
\* of it, and three points outside the metro rectangle (28 km south, 26 km
\* east and 71 km north of the city hall)
PointO == PARIS_CITY_HALL
PointO2 == Coordinates_new(4885714, 235140)
PointD == Coordinates_new(4886550, 235140)
QueryPoints ==
    { PointO, PointO2, PointD,
      Coordinates_new(4860000, 235140),
      Coordinates_new(4885650, 270000),
      Coordinates_new(4950000, 235140) }

(***************************************************************************)
(* types.rs: VelibStation.  A name is a sequence of characters.            *)
(***************************************************************************)
RealTimeStatus_new(mechanical, electric, available_docks, status) ==
    [bikes |-> [mechanical |-> mechanical, electric |-> electric],
     available_docks |-> available_docks, status |-> status]

VelibStation(station_code, name, coordinates, capacity, real_time) ==
    [reference |-> [station_code |-> station_code, name |-> name,
                    coordinates |-> coordinates, capacity |-> capacity],
     real_time |-> real_time]

\* the stations the upstream may deliver
StationA ==
    VelibStation("a", <<"a", "b">>, Coordinates_new(4885618, 235140), 20,
                 Some(RealTimeStatus_new(5, 0, 15, "Open")))
StationB ==
    VelibStation("b", <<"B", "a", "b">>, Coordinates_new(4885682, 235140), 20,
                 Some(RealTimeStatus_new(6, 4, 10, "Open")))
StationC ==
    VelibStation("c", <<"A", "b", "c">>, Coordinates_new(4886588, 235140), 20,
                 Some(RealTimeStatus_new(0, 15, 5, "Open")))
StationD ==
    VelibStation("d", <<"b", "a">>, Coordinates_new(4886055, 235140), 20,
                 Some(RealTimeStatus_new(1, 0, 0, "Maintenance")))
StationE ==
    VelibStation("e", <<"a", "b", "a">>, Coordinates_new(4885650, 235140), 10,
                 Some(RealTimeStatus_new(2, 0, 2, "Closed")))
StationF ==
    VelibStation("f", <<"c">>, Coordinates_new(4885660, 235240), 0, None)
StationG ==
    VelibStation("g", <<"b", "c">>, Coordinates_new(4886055, 235140), 20,
                 Some(RealTimeStatus_new(3, 0, 1, "Open")))
AllStations == {StationA, StationB, StationC, StationD, StationE, StationF, StationG}

\* the station lists get_all_stations may return: up to MaxStations
\* different stations in any order
StationLists ==
    UNION { { l \in [1..k -> AllStations] :
                \A i \in 1..k : \A j \in 1..k : i # j => l[i] # l[j] }
            : k \in 0..MaxStations }

\* BikeAvailability::total
BikeAvailability_total(bikes) ==
    Min(bikes.mechanical + bikes.electric, U16_MODULUS - 1)

\* VelibStation::is_operational
is_operational(station) ==
    IF station.real_time # None
    THEN station.real_time.val.status = "Open"
    ELSE TRUE

BikeTypeFilters == {"MechanicalOnly", "ElectricOnly", "AnyType"}

\* VelibStation::has_available_bikes
has_available_bikes(station, bike_type) ==
    IF station.real_time # None
    THEN CASE bike_type = "MechanicalOnly" ->
                 station.real_time.val.bikes.mechanical > 0
           [] bike_type = "ElectricOnly" ->
                 station.real_time.val.bikes.electric > 0
           [] OTHER -> BikeAvailability_total(station.real_time.val.bikes) > 0
    ELSE FALSE

\* VelibStation::has_available_docks
has_available_docks(station, min_docks) ==
    IF station.real_time # None
    THEN station.real_time.val.available_docks >= min_docks
    ELSE FALSE

(***************************************************************************)
(* mcp/handlers.rs: one call of a tool of McpToolHandler.  tc.locked       *)
(* records that the call took the write lock of the data client,           *)
(* tc.fetched whether it called get_all_stations ("no") and how the call   *)
(* ended ("ok", "failed").                                                 *)
(***************************************************************************)
ThIdle ==
    [pc |-> "idle", tool |-> "none", input |-> None, locked |-> FALSE,
     fetched |-> "no", all_stations |-> <<>>, output |-> NoResult]

\* a tool call whose input passed (or failed) the validation of its tool
ThEnter(tool, input, checked) ==
    IF checked.tag = "Ok"
    THEN [ThIdle EXCEPT !.pc = "lock", !.tool = tool, !.input = input]
    ELSE [ThIdle EXCEPT !.pc = "done", !.tool = tool, !.input = input,
                        !.output = checked]

\* self.data_client.write().await
ToolAcquire ==
    /\ tc.pc = "lock"
    /\ tc' = [tc EXCEPT !.pc = "fetch", !.locked = TRUE]
    /\ UNCHANGED NotTools

\* data_client.get_all_stations(true).await?
ToolFetch ==
    /\ tc.pc = "fetch"
    /\ \/ \E stations \in StationLists :
             tc' = [tc EXCEPT !.pc = "compute", !.fetched = "ok",
                              !.all_stations = stations]
       \/ tc' = [tc EXCEPT !.pc = "done", !.fetched = "failed",
                           !.output = Failed(Err("Cache"))]
    /\ UNCHANGED NotTools

\* Iterator::find the first element of a list with a property, if any
FirstWhere(list, P(_)) ==
    IF \E i \in 1..Len(list) : P(list[i])
    THEN Some(list[CHOOSE i \in 1..Len(list) :
                      P(list[i]) /\ \A j \in 1..(i - 1) : ~P(list[j])])
    ELSE None

GetStationByCode_any(all_stations, station_code) ==
    IF all_stations = <<>> THEN None ELSE Some(all_stations[1])

\* VelibDataClient::get_station_by_code on the merged set
GetStationByCode(all_stations, station_code) ==
    LET HasCode(station) == station.reference.station_code = station_code
    IN  FirstWhere(all_stations, HasCode)

StationCodes == {"a", "c", "z", ""}

\* McpToolHandler::get_station_by_code: no validation, then the lock
GetStationByCodeStart ==
    /\ tc.pc = "idle"
    /\ \E station_code \in StationCodes :
          tc' = ThEnter("get_station_by_code", [station_code |-> station_code],
                        Ok(TRUE))
    /\ UNCHANGED NotTools

GetStationByCodeReturn ==
    /\ tc.pc = "compute"
    /\ tc.tool = "get_station_by_code"
    /\ LET station == GetStationByCode(tc.all_stations, tc.input.station_code)
       IN  tc' = [tc EXCEPT !.pc = "done",
                            !.output = Ok([found |-> station # None,
                                           station |-> station])]
    /\ UNCHANGED NotTools

(***************************************************************************)
(* mcp/handlers.rs: find_nearby_stations                                   *)
(***************************************************************************)
MAX_SEARCH_RADIUS == 5000
MAX_RESULT_LIMIT == 100

SearchRadiusTooLarge(radius, max) ==
    [kind |-> "SearchRadiusTooLarge", radius |-> radius, max |-> max]
ResultLimitExceeded(limit, max) ==
    [kind |-> "ResultLimitExceeded", limit |-> limit, max |-> max]
InvalidCoordinates(latitude, longitude) ==
    [kind |-> "InvalidCoordinates", latitude |-> latitude, longitude |-> longitude]
\* distance_km = distance_to(PARIS_CITY_HALL) / 1000.0, kept in whole km
OutsideServiceArea(c) ==
    [kind |-> "OutsideServiceArea",
     distance_km |-> distance_to(c, PARIS_CITY_HALL) \div 10000]

\* a slice of a list: Vec::truncate
Truncate(list, n) == SubSeq(list, 1, Min(n, Len(list)))

\* the stable sort of slice::sort_by_key and slice::sort_by: an element
\* goes after the elements that are less, and after the equal ones that
\* were before it
StableSort(list, Less(_, _)) ==
    LET n == Len(list)
        rank(i) == 1 + Cardinality({j \in 1..n :
                        \/ Less(list[j], list[i])
                        \/ (~Less(list[i], list[j]) /\ j < i)})
    IN  [p \in 1..n |-> list[CHOOSE i \in 1..n : rank(i) = p]]

\* filter_map: the elements of a list, mapped, that a test keeps
FilterMap(list, Keep(_), Map(_)) ==
    LET kept == SelectSeq(list, Keep)
    IN  [i \in 1..Len(kept) |-> Map(kept[i])]

FindNearbyValidate_limit_first(input) ==
    LET query_point == Coordinates_new(input.latitude, input.longitude)
    IN  IF input.limit > MAX_RESULT_LIMIT
        THEN Failed(ResultLimitExceeded(input.limit, MAX_RESULT_LIMIT))
        ELSE IF input.radius_meters > MAX_SEARCH_RADIUS
        THEN Failed(SearchRadiusTooLarge(input.radius_meters, MAX_SEARCH_RADIUS))
        ELSE IF ~is_valid_paris_metro(query_point)
        THEN Failed(InvalidCoordinates(input.latitude, input.longitude))
        ELSE IF ~is_within_paris_service_area(query_point)
        THEN Failed(OutsideServiceArea(query_point))
        ELSE Ok(TRUE)

\* find_nearby_stations: the checks before the fetch
FindNearbyValidate(input) ==
    LET query_point == Coordinates_new(input.latitude, input.longitude)
    IN  IF input.radius_meters > MAX_SEARCH_RADIUS
        THEN Failed(SearchRadiusTooLarge(input.radius_meters, MAX_SEARCH_RADIUS))
        ELSE IF input.limit > MAX_RESULT_LIMIT
        THEN Failed(ResultLimitExceeded(input.limit, MAX_RESULT_LIMIT))
        ELSE IF ~is_valid_paris_metro(query_point)
        THEN Failed(InvalidCoordinates(input.latitude, input.longitude))
        ELSE IF ~is_within_paris_service_area(query_point)
        THEN Failed(OutsideServiceArea(query_point))
        ELSE Ok(TRUE)

\* the closure of filter_map: has the station the requested bikes
HasRequestedBikes(station, availability_filter) ==
    IF availability_filter # None /\ availability_filter.val.bike_type # None
    THEN has_available_bikes(station, availability_filter.val.bike_type.val)
    ELSE TRUE

StationWithDistance(station, from) ==
    [station |-> station,
     distance_meters |-> AsMetres(distance_to(from, station.reference.coordinates))]

NearbyStations_unfiltered(all_stations, input) ==
    LET query_point == Coordinates_new(input.latitude, input.longitude)
        Keep(station) ==
            StationWithDistance(station, query_point).distance_meters
                <= input.radius_meters
        Map(station) == StationWithDistance(station, query_point)
        ByDistance(s, t) == s.distance_meters < t.distance_meters
    IN  Truncate(StableSort(FilterMap(all_stations, Keep, Map), ByDistance),
                 input.limit)

\* find_nearby_stations: filter, sort by distance, truncate
NearbyStations(all_stations, input) ==
    LET query_point == Coordinates_new(input.latitude, input.longitude)
        Keep(station) ==
            /\ StationWithDistance(station, query_point).distance_meters
                 <= input.radius_meters
            /\ HasRequestedBikes(station, input.availability_filter)
            /\ is_operational(station)
        Map(station) == StationWithDistance(station, query_point)
        ByDistance(s, t) == s.distance_meters < t.distance_meters
    IN  Truncate(StableSort(FilterMap(all_stations, Keep, Map), ByDistance),
                 input.limit)

AvailabilityFilters ==
    {None, Some([bike_type |-> None])}
        \cup {Some([bike_type |-> Some(t)]) : t \in BikeTypeFilters}

FindNearbyInputs ==
    [latitude : {c.latitude : c \in QueryPoints},
     longitude : {c.longitude : c \in QueryPoints},
     radius_meters : {35, 500, MAX_SEARCH_RADIUS, MAX_SEARCH_RADIUS + 1},
     limit : {1, 2, MAX_RESULT_LIMIT, MAX_RESULT_LIMIT + 1},
     availability_filter : AvailabilityFilters]

FindNearbyStart ==
    /\ tc.pc = "idle"
    /\ \E input \in FindNearbyInputs :
          /\ Coordinates_new(input.latitude, input.longitude) \in QueryPoints
          /\ tc' = ThEnter("find_nearby_stations", input, FindNearbyValidate(input))
    /\ UNCHANGED NotTools

FindNearbyReturn ==
    /\ tc.pc = "compute"
    /\ tc.tool = "find_nearby_stations"
    /\ LET stations == NearbyStations(tc.all_stations, tc.input)
       IN  tc' = [tc EXCEPT
                    !.pc = "done",
                    !.output = Ok([stations |-> stations,
                                   search_metadata |->
                                     [query_point |-> Coordinates_new(tc.input.latitude,
                                                                      tc.input.longitude),
                                      radius_meters |-> tc.input.radius_meters,
                                      total_found |-> Len(stations)]])]
    /\ UNCHANGED NotTools

(***************************************************************************)
(* mcp/handlers.rs: search_stations_by_name.  A string is the sequence of  *)
(* its characters.                                                         *)
(***************************************************************************)
\* the code point of a character
CodePoint ==
    [A |-> 65, B |-> 66, a |-> 97, b |-> 98, c |-> 99, d |-> 100, e |-> 101,
     f |-> 102, g |-> 103, e_acute |-> 233,
     E_acute |-> 201]

\* the bytes of a character in UTF-8: one for ASCII, two for e acute
Utf8Len(ch) == IF ch \in {"e_acute", "E_acute"} THEN 2 ELSE 1

RECURSIVE str_len(_)
\* str::len: the length of a string in bytes
str_len(s) == IF s = <<>> THEN 0 ELSE Utf8Len(Head(s)) + str_len(Tail(s))

\* str::to_lowercase
to_lowercase(s) ==
    [i \in 1..Len(s) |-> CASE s[i] = "A" -> "a"
                           [] s[i] = "B" -> "b"
                           [] s[i] = "E_acute" -> "e_acute"
                           [] OTHER -> s[i]]

\* str::starts_with
starts_with(s, prefix) ==
    /\ Len(prefix) <= Len(s)
    /\ SubSeq(s, 1, Len(prefix)) = prefix

\* str::contains
contains(s, pattern) ==
    \E k \in 0..(Len(s) - Len(pattern)) : SubSeq(s, k + 1, k + Len(pattern)) = pattern

\* str::cmp is Less: the first differing character decides, then the length
StrLess(s, t) ==
    \E k \in 1..(Len(t)) :
       /\ k - 1 <= Len(s)
       /\ SubSeq(s, 1, k - 1) = SubSeq(t, 1, k - 1)
       /\ \/ Len(s) = k - 1
          \/ (Len(s) >= k /\ CodePoint[s[k]] < CodePoint[t[k]])

\* search_stations_by_name: the checks before the fetch
SearchByNameValidate(input) ==
    IF str_len(input.query) < 2
    THEN Failed(Err("Internal"))
    ELSE IF input.limit > MAX_RESULT_LIMIT
    THEN Failed(ResultLimitExceeded(input.limit, MAX_RESULT_LIMIT))
    ELSE Ok(TRUE)

MatchingStations_prefix(all_stations, input) ==
    LET query_lower == to_lowercase(input.query)
        Matches(station) ==
            starts_with(to_lowercase(station.reference.name), query_lower)
        ByName(s, t) == StrLess(s.reference.name, t.reference.name)
    IN  Truncate(StableSort(SelectSeq(all_stations, Matches), ByName), input.limit)

\* search_stations_by_name: filter, sort by name, truncate
MatchingStations(all_stations, input) ==
    LET query_lower == to_lowercase(input.query)
        Matches(station) ==
            LET name_lower == to_lowercase(station.reference.name)
            IN  IF input.fuzzy
                THEN contains(name_lower, query_lower)
                ELSE starts_with(name_lower, query_lower)
        ByName(s, t) == StrLess(s.reference.name, t.reference.name)
    IN  Truncate(StableSort(SelectSeq(all_stations, Matches), ByName), input.limit)

Queries == {<<>>, <<"b">>, <<"e_acute">>, <<"a", "b">>, <<"A", "B">>, <<"b", "c">>}

SearchByNameInputs ==
    [query : Queries,
     limit : {1, 2, MAX_RESULT_LIMIT, MAX_RESULT_LIMIT + 1},
     fuzzy : BOOLEAN]

SearchByNameStart ==
    /\ tc.pc = "idle"
    /\ \E input \in SearchByNameInputs :
          tc' = ThEnter("search_stations_by_name", input, SearchByNameValidate(input))
    /\ UNCHANGED NotTools

SearchByNameReturn ==
    /\ tc.pc = "compute"
    /\ tc.tool = "search_stations_by_name"
    /\ LET stations == MatchingStations(tc.all_stations, tc.input)
       IN  tc' = [tc EXCEPT
                    !.pc = "done",
                    !.output = Ok([stations |-> stations,
                                   search_metadata |->
                                     [query |-> tc.input.query,
                                      total_found |-> Len(stations),
                                      fuzzy_enabled |-> tc.input.fuzzy]])]
    /\ UNCHANGED NotTools

(***************************************************************************)
(* mcp/handlers.rs: get_area_statistics                                    *)
(***************************************************************************)
GeographicBounds_contains_open(bounds, coords) ==
    /\ coords.latitude > bounds.south
    /\ coords.latitude < bounds.north
    /\ coords.longitude > bounds.west
    /\ coords.longitude < bounds.east

\* GeographicBounds::contains
GeographicBounds_contains(bounds, coords) ==
    /\ coords.latitude >= bounds.south
    /\ coords.latitude <= bounds.north
    /\ coords.longitude >= bounds.west
    /\ coords.longitude <= bounds.east

\* the `for station in &area_stations` loop: the sum of a quantity over a list
Total(list, Quantity(_)) ==
    LET acc[i \in 0..Len(list)] ==
            IF i = 0 THEN 0 ELSE acc[i - 1] + Quantity(list[i])
    IN  acc[Len(list)]

\* get_area_statistics on the fetched stations.  The occupancy rate, an
\* f64 quotient, is kept as the fraction num / den.
AreaStatistics(all_stations, bounds) ==
    LET InArea(station) ==
            GeographicBounds_contains(bounds, station.reference.coordinates)
        area_stations == SelectSeq(all_stations, InArea)
        Capacity(station) == station.reference.capacity
        Mechanical(station) ==
            IF station.real_time # None
            THEN station.real_time.val.bikes.mechanical ELSE 0
        Electric(station) ==
            IF station.real_time # None
            THEN station.real_time.val.bikes.electric ELSE 0
        Docks(station) ==
            IF station.real_time # None
            THEN station.real_time.val.available_docks ELSE 0
        total_capacity == Total(area_stations, Capacity)
        total_mechanical == Total(area_stations, Mechanical)
        total_electric == Total(area_stations, Electric)
        total_bikes == total_mechanical + total_electric
    IN  [total_stations |-> Len(area_stations),
         operational_stations |-> Len(SelectSeq(area_stations, is_operational)),
         total_capacity |-> total_capacity,
         available_bikes |-> [mechanical |-> total_mechanical,
                              electric |-> total_electric,
                              total |-> total_bikes],
         available_docks |-> Total(area_stations, Docks),
         occupancy_rate |-> IF total_capacity > 0
                            THEN [num |-> total_bikes, den |-> total_capacity]
                            ELSE [num |-> 0, den |-> 1]]

\* the rectangles statistics are asked for: the metro rectangle, the
\* rectangle with stations a and b on its edge, the point of station f,
\* and a rectangle whose south is north of its north
AreaBounds ==
    { [north |-> 4900000, south |-> 4870000, east |-> 260000, west |-> 200000],
      [north |-> 4885682, south |-> 4885618, east |-> 235140, west |-> 235140],
      [north |-> 4885660, south |-> 4885660, east |-> 235240, west |-> 235240],
      [north |-> 4870000, south |-> 4900000, east |-> 260000, west |-> 200000] }

\* McpToolHandler::get_area_statistics: no validation, then the lock
AreaStatisticsStart ==
    /\ tc.pc = "idle"
    /\ \E bounds \in AreaBounds :
          tc' = ThEnter("get_area_statistics", [bounds |-> bounds], Ok(TRUE))
    /\ UNCHANGED NotTools

AreaStatisticsReturn ==
    /\ tc.pc = "compute"
    /\ tc.tool = "get_area_statistics"
    /\ tc' = [tc EXCEPT
                !.pc = "done",
                !.output = Ok([area_stats |-> AreaStatistics(tc.all_stations,
                                                             tc.input.bounds),
                               bounds |-> tc.input.bounds])]
    /\ UNCHANGED NotTools

(***************************************************************************)
(* mcp/handlers.rs: plan_bike_journey                                      *)
(***************************************************************************)
\* plan_bike_journey: the checks before the fetch
PlanJourneyValidate(input) ==
    IF ~is_valid_paris_metro(input.origin)
    THEN Failed(InvalidCoordinates(input.origin.latitude, input.origin.longitude))
    ELSE IF ~is_valid_paris_metro(input.destination)
    THEN Failed(InvalidCoordinates(input.destination.latitude,
                                   input.destination.longitude))
    ELSE IF ~is_within_paris_service_area(input.origin)
    THEN Failed(OutsideServiceArea(input.origin))
    ELSE IF ~is_within_paris_service_area(input.destination)
    THEN Failed(OutsideServiceArea(input.destination))
    ELSE Ok(TRUE)

\* impl Default for JourneyPreferences
JourneyPreferences_default == [bike_type |-> "AnyType", max_walk_distance |-> 500]

\* input.preferences.unwrap_or_default()
PreferencesOf(input) ==
    IF input.preferences # None THEN input.preferences.val
    ELSE JourneyPreferences_default

\* the pickup candidates: near the origin, operational, with bikes
PickupCandidates(all_stations, input) ==
    LET preferences == PreferencesOf(input)
        Keep(station) ==
            /\ StationWithDistance(station, input.origin).distance_meters
                 <= preferences.max_walk_distance
            /\ is_operational(station)
            /\ has_available_bikes(station, preferences.bike_type)
        Map(station) == StationWithDistance(station, input.origin)
        ByDistance(s, t) == s.distance_meters < t.distance_meters
    IN  Truncate(StableSort(FilterMap(all_stations, Keep, Map), ByDistance), 3)

\* the dropoff candidates: near the destination, operational, with a dock
DropoffCandidates(all_stations, input) ==
    LET preferences == PreferencesOf(input)
        Keep(station) ==
            /\ StationWithDistance(station, input.destination).distance_meters
                 <= preferences.max_walk_distance
            /\ is_operational(station)
            /\ has_available_docks(station, 1)
        Map(station) == StationWithDistance(station, input.destination)
        ByDistance(s, t) == s.distance_meters < t.distance_meters
    IN  Truncate(StableSort(FilterMap(all_stations, Keep, Map), ByDistance), 3)

\* f64 values are exact fractions num / den, or NaN (0.0 / 0.0)
NaN == [nan |-> TRUE]
Frac(num, den) == [nan |-> FALSE, num |-> num, den |-> den]
FracLess(x, y) == ~x.nan /\ ~y.nan /\ x.num * y.den < y.num * x.den

\* f64::clamp: NaN stays NaN
Clamp(x, lo, hi) ==
    IF x.nan THEN x
    ELSE IF FracLess(x, lo) THEN lo
    ELSE IF FracLess(hi, x) THEN hi
    ELSE x

ConfidenceScore_capped(pickup_distance, dropoff_distance, max_walk_distance) ==
    IF max_walk_distance = 0 THEN NaN
    ELSE Clamp(Frac(4 * max_walk_distance - pickup_distance - dropoff_distance,
                    4 * max_walk_distance),
               Frac(1, 10), Frac(9, 10))

\* the confidence score of a recommendation:
\* (1.0 - midpoint(pickup / max_walk, dropoff / max_walk) * 0.5).clamp(0.1, 1.0)
ConfidenceScore(pickup_distance, dropoff_distance, max_walk_distance) ==
    IF max_walk_distance = 0 THEN NaN
    ELSE Clamp(Frac(4 * max_walk_distance - pickup_distance - dropoff_distance,
                    4 * max_walk_distance),
               Frac(1, 10), Frac(1, 1))

\* the recommendations: the nearest pickup paired with the nearest dropoff
Recommendations(pickup_stations, dropoff_stations, preferences) ==
    IF pickup_stations # <<>> /\ dropoff_stations # <<>>
    THEN LET best_pickup == pickup_stations[1]
             best_dropoff == dropoff_stations[1]
         IN  << [pickup_station |-> best_pickup.station,
                 dropoff_station |-> best_dropoff.station,
                 walk_to_pickup |-> best_pickup.distance_meters,
                 walk_from_dropoff |-> best_dropoff.distance_meters,
                 confidence_score |->
                     ConfidenceScore(best_pickup.distance_meters,
                                     best_dropoff.distance_meters,
                                     preferences.max_walk_distance)] >>
    ELSE <<>>

JourneyPreferences ==
    { None,
      Some([bike_type |-> "AnyType", max_walk_distance |-> 0]),
      Some([bike_type |-> "MechanicalOnly", max_walk_distance |-> 100]),
      Some([bike_type |-> "ElectricOnly", max_walk_distance |-> 500]) }

PlanJourneyInputs ==
    [origin : QueryPoints, destination : QueryPoints, preferences : JourneyPreferences]

PlanJourneyStart ==
    /\ tc.pc = "idle"
    /\ \E input \in PlanJourneyInputs :
          tc' = ThEnter("plan_bike_journey", input, PlanJourneyValidate(input))
    /\ UNCHANGED NotTools

PlanJourneyReturn ==
    /\ tc.pc = "compute"
    /\ tc.tool = "plan_bike_journey"
    /\ LET pickup_stations == PickupCandidates(tc.all_stations, tc.input)
           dropoff_stations == DropoffCandidates(tc.all_stations, tc.input)
       IN  tc' = [tc EXCEPT
                    !.pc = "done",
                    !.output =
                        Ok([journey |->
                              [pickup_stations |-> pickup_stations,
                               dropoff_stations |-> dropoff_stations,
                               recommendations |->
                                   Recommendations(pickup_stations, dropoff_stations,
                                                   PreferencesOf(tc.input))]])]
    /\ UNCHANGED NotTools

(***************************************************************************)
(* data/client.rs: one call of fetch_reference_stations or                 *)
(* fetch_realtime_status against an upstream that serves a feed by         *)
(* offset and limit.  The feed is a sequence of JSON records; a request    *)
(* for (limit, offset) is answered with the records offset + 1 ..          *)
(* offset + limit of the feed, or fails (the request, the decoding of the  *)
(* body, or "results" not being an array).  One step is one iteration of   *)
(* the loop, the insert into the cache after the loop included.            *)
(***************************************************************************)
\* let limit = 100; // API limit
API_LIMIT == 100

\* the errors a page can end with: get_with_query or response.json()
\* (Error::Http), a "results" that is no array (Error::Internal)
PageErrors == { HttpErr(NoStatus), HttpErr(503), Err("Internal") }

Feeds == {"reference", "realtime"}

\* the sizes of the upstream feeds: whole pages plus 0, 1 or 99 records
FeedSizes ==
    { k * API_LIMIT + r : k \in 0..MaxFullPages, r \in {0, 1, API_LIMIT - 1} }

\* the fields a record of a feed may lack
LackingFields(feed) ==
    IF feed = "reference"
    THEN {"stationcode", "name", "capacity", "coordonnees_geo"}
    ELSE {"stationcode", "mechanical"}

\* the i-th record of a feed, carrying the station code of record `code`
FeedRecord(feed, i, code) ==
    IF feed = "reference"
    THEN RefRecord(Some(ToString(code)), Some("A"), Some(i), Some("paris"))
    ELSE RtRecord(Some(ToString(code)), Some(i), Some(0), Some(1))

\* a feed of n records; record `bad` (if not 0) lacks the field `field`, and
\* with `repeated` the second record carries the station code of the first
UpstreamFeed(feed, n, bad, field, repeated) ==
    [i \in 1..n |->
        LET record == FeedRecord(feed, i, IF repeated /\ i = 2 THEN 1 ELSE i)
        IN  IF i = bad THEN [record EXCEPT ![field] = None] ELSE record]

\* the records the upstream answers a request (limit, offset) with
PageOf(upstream, offset, limit) ==
    SubSeq(upstream, Min(offset, Len(upstream)) + 1,
           Min(offset + limit, Len(upstream)))

\* the empty accumulator: Vec::new() or HashMap::new()
NoRecords(feed) == IF feed = "reference" THEN <<>> ELSE EmptyMap

\* the accumulator after `for record in records { if let Ok(..) = parse .. }`
WithPage(feed, all, records) ==
    IF feed = "reference"
    THEN all \o ParsedReference(records)
    ELSE LET page == ParsedRealtime(records)
         IN  [c \in DOMAIN all \cup DOMAIN page |->
                 IF c \in DOMAIN page THEN page[c] ELSE all[c]]

IsLastPage_upto(records, limit) == Len(records) <= limit

\* records.len() < limit: "Last page"
IsLastPage(records, limit) == Len(records) < limit

CacheAfterError_partial(m, key, all, ttl, t) ==
    InMemoryCache_insert_with_ttl(m, key, all, ttl, t)

\* the cache of the feed after `?` returned the error of a page: untouched
CacheAfterError(m, key, all, ttl, t) == m

\* the locals of the call: the upstream it talks to, the requests it sent,
\* the last response, and the two caches as they were when it was entered
FdIdle ==
    [pc |-> "idle", feed |-> "reference", upstream |-> <<>>, offset |-> 0,
     all |-> <<>>, requests |-> <<>>, response |-> NoResult,
     result |-> NoResult, entered |-> <<EmptyMap, EmptyMap>>]

\* the two caches with the cache of one feed replaced
CachesWith(feed, m) ==
    /\ reference_cache' = IF feed = "reference" THEN m ELSE reference_cache
    /\ realtime_cache' = IF feed = "realtime" THEN m ELSE realtime_cache

\* fetch_*: "Check cache first"
FetchCheckCache ==
    /\ fd.pc = "check"
    /\ LET cached == InMemoryCache_get(FeedCache(fd.feed), FeedKey(fd.feed), now)
       IN  fd' = IF cached # None
                 THEN [fd EXCEPT !.pc = "done", !.result = Ok(cached.val)]
                 ELSE [fd EXCEPT !.pc = "page", !.all = NoRecords(fd.feed),
                                 !.offset = 0]
    /\ UNCHANGED <<now, clientVars, NotFetch>>

\* one iteration of the loop: the request for (limit, offset), its response,
\* the records pushed, and after the last page the insert and the return
FetchPage ==
    /\ fd.pc = "page"
    /\ LET request == [limit |-> API_LIMIT, offset |-> fd.offset]
           sent == [fd EXCEPT !.requests = Append(@, request)]
           records == PageOf(fd.upstream, request.offset, request.limit)
           all == WithPage(fd.feed, fd.all, records)
           fetched == IF records = <<>> THEN fd.all ELSE all
       IN  \/ \E e \in PageErrors :
                /\ fd' = [sent EXCEPT !.pc = "done", !.response = Failed(e),
                                      !.result = Failed(e)]
                /\ CachesWith(fd.feed,
                              CacheAfterError(FeedCache(fd.feed), FeedKey(fd.feed),
                                              fd.all, FeedTtl(fd.feed), now))
           \/ /\ records # <<>>
              /\ ~IsLastPage(records, API_LIMIT)
              /\ fd' = [sent EXCEPT !.response = Ok(records), !.all = all,
                                    !.offset = @ + API_LIMIT]
              /\ UNCHANGED <<reference_cache, realtime_cache>>
           \/ /\ records = <<>> \/ IsLastPage(records, API_LIMIT)
              /\ fd' = [sent EXCEPT !.pc = "done", !.response = Ok(records),
                                    !.all = fetched,
                                    !.offset = IF records = <<>> THEN @
                                               ELSE @ + API_LIMIT,
                                    !.result = Ok(fetched)]
              /\ CachesWith(fd.feed,
                            InMemoryCache_insert_with_ttl(
                                FeedCache(fd.feed), FeedKey(fd.feed), fetched,
                                FeedTtl(fd.feed), now))
    /\ UNCHANGED <<now, dc_lock, h_pc, cl, NotFetch>>

\* the cache of a feed when the call is entered: empty, or holding an
\* earlier snapshot that has expired or is still fresh
EarlierCaches(feed) ==
    LET old == WithPage(feed, NoRecords(feed), <<FeedRecord(feed, 1, 1)>>)
    IN  { EmptyMap,
          HashMap_insert(EmptyMap, FeedKey(feed), [data |-> old, expires_at |-> -1]),
          HashMap_insert(EmptyMap, FeedKey(feed), [data |-> old, expires_at |-> 1]) }

\* a call of fetch_* on a client whose cache of the feed is m
FdNew(feed, upstream, m) ==
    [FdIdle EXCEPT !.pc = "check", !.feed = feed, !.upstream = upstream,
                   !.entered = IF feed = "reference" THEN <<m, EmptyMap>>
                               ELSE <<EmptyMap, m>>]

InitFetch ==
    \E feed \in Feeds, n \in FeedSizes, repeated \in BOOLEAN :
    \E bad \in {0, 1, n}, field \in LackingFields(feed), m \in EarlierCaches(feed) :
       /\ fd = FdNew(feed, UpstreamFeed(feed, n, bad, field, repeated), m)
       /\ reference_cache = fd.entered[1]
       /\ realtime_cache = fd.entered[2]
       /\ dc_lock = [writer |-> NoHandler, readers |-> {}]
       /\ h_pc = [h \in Handlers |-> HIdle]
       /\ cl = ClNew(None)

IdleFetch == fd = FdIdle

NextFetch ==
    \/ FetchCheckCache
    \/ FetchPage

(***************************************************************************)
(* The specifications                                                      *)
(***************************************************************************)
IdleCache == InitCache
IdleRetry == InitRetry
IdleCircuit ==
    /\ CircuitBreaker_new(1, 0)
    /\ cb_call = [c \in Callers |-> "idle"]
    /\ cb_log = [last |-> "new", caller |-> 0, started |-> 0, invoked |-> 0,
                 streak |-> 0, result |-> NoResult]
IdleClient ==
    /\ reference_cache = EmptyMap
    /\ realtime_cache = EmptyMap
    /\ dc_lock = [writer |-> NoHandler, readers |-> {}]
    /\ h_pc = [h \in Handlers |-> HIdle]
    /\ cl = ClNew(None)

IdleTools == tc = ThIdle

\* the state after construction, per specification: one component under
\* study, the others at rest
InitSpecCache == now = 0 /\ InitCache /\ IdleRetry /\ IdleCircuit /\ IdleClient /\ IdleMerge /\ IdleTools /\ IdleFetch
InitSpecRetry == now = 0 /\ IdleCache /\ InitRetry /\ IdleCircuit /\ IdleClient /\ IdleMerge /\ IdleTools /\ IdleFetch
InitSpecCircuit == now = 0 /\ IdleCache /\ IdleRetry /\ InitCircuit /\ IdleClient /\ IdleMerge /\ IdleTools /\ IdleFetch
InitSpecClient == now = 0 /\ IdleCache /\ InitRetry /\ IdleCircuit /\ InitClient /\ IdleMerge /\ IdleTools /\ IdleFetch

SpecCache == InitSpecCache /\ [][NextCache]_vars
SpecRetry == InitSpecRetry /\ [][NextRetry]_vars
SpecCircuit == InitSpecCircuit /\ [][NextCircuit]_vars
SpecClient == InitSpecClient /\ [][NextClient]_vars
InitSpecMerge == now = 0 /\ IdleCache /\ IdleRetry /\ IdleCircuit /\ IdleClient /\ InitMerge /\ IdleTools /\ IdleFetch
SpecMerge == InitSpecMerge /\ [][NextMerge]_vars
NextTools ==
    \/ FindNearbyStart
    \/ FindNearbyReturn
    \/ SearchByNameStart
    \/ SearchByNameReturn
    \/ AreaStatisticsStart
    \/ AreaStatisticsReturn
    \/ PlanJourneyStart
    \/ PlanJourneyReturn
    \/ GetStationByCodeStart
    \/ ToolAcquire
    \/ ToolFetch
    \/ GetStationByCodeReturn
InitSpecTools == now = 0 /\ IdleCache /\ IdleRetry /\ IdleCircuit /\ IdleClient /\ IdleMerge /\ IdleTools /\ IdleFetch
SpecTools == InitSpecTools /\ [][NextTools]_vars
SpecPaging == InitSpecClient /\ [][NextPaging]_vars /\ WF_vars(NextPaging)
InitSpecBreaker == now = 0 /\ IdleCache /\ IdleRetry /\ InitBreaker /\ IdleClient /\ IdleMerge /\ IdleTools /\ IdleFetch
SpecBreaker == InitSpecBreaker /\ [][NextBreaker]_vars
InitSpecFetch == now = 0 /\ IdleCache /\ IdleRetry /\ IdleCircuit /\ InitFetch /\ IdleMerge /\ IdleTools
SpecFetch == InitSpecFetch /\ [][NextFetch]_vars

(***************************************************************************)
(* Properties of the cache (SpecCache)                                     *)
(***************************************************************************)

\* C8: get(k) at time now returns Some(v) only if an entry (v, expires_at) is
\* stored for k with now < expires_at, and returns None for every stored
\* entry with now >= expires_at (now = expires_at included).
C8_GetOnlyBeforeExpiry ==
    c_last.op = "get" =>
        LET k == c_last.key
        IN  /\ c_last.result # None =>
                  /\ k \in DOMAIN entries
                  /\ c_last.result = Some(entries[k].data)
                  /\ now < entries[k].expires_at
            /\ (k \in DOMAIN entries /\ now >= entries[k].expires_at) =>
                  c_last.result = None

\* C9: after an insert of (k, v) with a positive TTL, a get(k) before the
\* TTL elapses, with no insert, remove, clear or removing sweep of k in
\* between, returns Some(v), whatever the cache held before; and an insert
\* leaves the entries of all other keys as they were.
C9_InsertThenGet ==
    /\ [](c_last.op = "get" =>
            LET note == c_ins[c_last.key]
            IN  (note # None /\ now < note.val.until) =>
                    c_last.result = Some(note.val.value))
    /\ [][c_last'.op \in {"insert", "insert_with_ttl"} =>
            \A k \in Keys \ {c_last'.key} :
                /\ k \in DOMAIN entries' <=> k \in DOMAIN entries
                /\ k \in DOMAIN entries => entries'[k] = entries[k]]_vars

\* C9 witness: a get answered Some(v) from an insert made at an earlier
\* tick, while the other key is present as well.
C9_Witness ==
    /\ c_last.op = "get"
    /\ c_ins[c_last.key] # None
    /\ now < c_ins[c_last.key].val.until
    /\ now > 0
    /\ c_last.result = Some(c_ins[c_last.key].val.value)
    /\ DOMAIN entries = Keys

\* C10: cleanup_expired removes exactly the expired entries and leaves every
\* other entry unchanged: size() is then the number of unexpired entries and
\* get(k) answers for every key as it did right before the sweep.
C10_SweepKeepsGet ==
    [][c_last'.op = "cleanup_expired" =>
        /\ \A k \in DOMAIN entries' :
              k \in DOMAIN entries /\ entries'[k] = entries[k]
        /\ InMemoryCache_size(entries') =
              Cardinality({k \in DOMAIN entries : ~is_expired(entries[k], now)})
        /\ \A k \in Keys :
              InMemoryCache_get(entries', k, now') = InMemoryCache_get(entries, k, now)
      ]_vars

(***************************************************************************)
(* Properties of the retry loops (SpecRetry)                               *)
(***************************************************************************)

\* C2: for every max_attempts, when every invocation of the operation failed
\* with a retryable error, execute ends having invoked it exactly
\* max_attempts + 1 times and returns the error of the last invocation.
C2_ExhaustsBudget ==
    (ex.pc \in {"done", "panicked"} /\ ex.outcome.tag = "Err" /\ ex.only_retryable) =>
        /\ ex.pc = "done"
        /\ ex.calls = ex.cfg.max_attempts + 1
        /\ ex.result = ex.outcome

\* C3: in both loops, once an invocation has failed with an error the loop
\* classifies as non-retryable, the loop is over: that error is the result,
\* no sleep followed the failure (sleeps stand only between invocations) and
\* the operation is not invoked again.
C3_TerminalErrorStops ==
    /\ (ex.outcome.tag = "Err" /\ ~is_retryable_error(ex.outcome.err)) =>
          /\ ex.pc = "done"
          /\ ex.result = ex.outcome
          /\ ex.sleeps = ex.calls - 1
    /\ (rb.outcome.tag = "Err" /\ ~Error_is_retryable(rb.outcome.err)) =>
          /\ rb.pc = "done"
          /\ rb.result = rb.outcome
          /\ rb.sleeps = rb.calls - 1

\* C3 witness: execute, with retries left, ended after a single invocation
\* that failed with a non-retryable error.
C3_Witness ==
    /\ ex.pc = "done"
    /\ ex.cfg.max_attempts > 0
    /\ ex.outcome.tag = "Err"
    /\ ~is_retryable_error(ex.outcome.err)
    /\ ex.calls = 1
    /\ ex.sleeps = 0

\* min(base_delay * 2^n, max_delay) over the integers, for max_delay < 2^30
ExactDelay(base_delay, max_delay, n) ==
    IF base_delay = 0 THEN 0
    ELSE IF n >= 30 THEN max_delay
    ELSE Min(base_delay * (2 ^ n), max_delay)

\* C16: with jitter disabled, the delay calculate_delay(n) hands to the
\* sleep after attempt n is min(base_delay * 2^n, max_delay) seconds, for
\* every attempt index n the loop reaches; calculate_delay returns for each
\* of them.
C16_DelayFormula ==
    /\ (ex.pc = "sleep" /\ ~ex.cfg.use_jitter) =>
          ex.delay = ExactDelay(ex.cfg.base_delay_seconds,
                                ex.cfg.max_delay_seconds, ex.attempt)
    /\ ex.pc # "panicked"

\* the retry-after hint of the error an attempt failed with, if it has one
Hinted(last_error) ==
    /\ last_error # None
    /\ last_error.val.kind = "RateLimited"
    /\ last_error.val.retry_after # None

\* C17: in both loops, the sleep that follows an attempt failed with a
\* rate-limit error hinting retry-after N seconds lasts N seconds (N * 1000
\* ms in retry_with_backoff), not the backoff value of the attempt index.
C17_RetryAfterHonoured ==
    /\ (ex.pc = "sleep" /\ Hinted(ex.last_error)) =>
          ex.delay = ex.last_error.val.retry_after.val
    /\ (rb.pc = "sleep" /\ Hinted(rb.last_error)) =>
          rb.delay = rb.last_error.val.retry_after.val * 1000

\* C18: when an invocation of execute's operation succeeds with v after k
\* invocations that failed with retryable errors (k <= max_attempts),
\* execute is over with Ok(v), the operation was invoked k + 1 times with
\* a backoff sleep between any two invocations (k sleeps), and no further
\* invocation or sleep can follow.
C18_SuccessEndsLoop ==
    ex.outcome.tag = "Ok" =>
        /\ ex.pc = "done"
        /\ ex.result = ex.outcome
        /\ ex.only_retryable
        /\ ex.calls = ex.attempt + 1
        /\ ex.calls <= ex.cfg.max_attempts + 1
        /\ ex.sleeps = ex.calls - 1
        /\ ~ENABLED ExecuteInvoke
        /\ ~ENABLED ExecuteWake

\* C18 witness: with max_attempts >= 2, every invocation but the last
\* allowed one failed, and that one succeeded.
C18_Witness ==
    /\ ex.pc = "done"
    /\ ex.outcome.tag = "Ok"
    /\ ex.cfg.max_attempts >= 2
    /\ ex.calls = ex.cfg.max_attempts + 1
    /\ ex.sleeps = ex.cfg.max_attempts
    /\ ex.result = ex.outcome

\* the errors of the Error enum by what they report: a failure of the network
\* or transport (an Http error without a response status, a Timeout), a
\* rate limit (RateLimited, RateLimit), an internal error; and a validation
\* error, a station that does not exist, a protocol error
TransientError(e) ==
    \/ e.kind = "Http" /\ e.status = NoStatus
    \/ e.kind \in {"Timeout", "RateLimited", "RateLimit", "Internal"}
TerminalError(e) ==
    e.kind \in {"Validation", "InvalidCoordinates", "StationNotFound", "McpProtocol"}

\* C15: whatever error an invocation of either loop failed with, the loop's
\* classifier calls it retryable if it is a network/transport, rate-limit or
\* internal error, and terminal if it is a validation, not-found or protocol
\* error.
C15_Classification ==
    /\ ex.outcome.tag = "Err" =>
          /\ TransientError(ex.outcome.err) => is_retryable_error(ex.outcome.err)
          /\ TerminalError(ex.outcome.err) => ~is_retryable_error(ex.outcome.err)
    /\ rb.outcome.tag = "Err" =>
          /\ TransientError(rb.outcome.err) => Error_is_retryable(rb.outcome.err)
          /\ TerminalError(rb.outcome.err) => ~Error_is_retryable(rb.outcome.err)

(***************************************************************************)
(* Properties of the circuit breaker, calls one after another              *)
(* (SpecCircuit)                                                           *)
(***************************************************************************)

\* C4: a call entered while the circuit is Open and now < until is answered
\* with the circuit-open error, runs no operation, and leaves the state, the
\* deadline and the failure counter as they were.
C4_OpenRejects ==
    [][(cb.state = "Open" /\ now < cb.until /\ cb_log'.started # cb_log.started) =>
        /\ cb_log'.last = "rejected"
        /\ cb_log'.result = Failed(CircuitOpenErr)
        /\ cb_log'.invoked = cb_log.invoked
        /\ cb_call' = cb_call
        /\ cb' = cb
      ]_vars

\* C4 witness: a call has just been rejected by an open circuit.
C4_Witness ==
    /\ cb_log.last = "rejected"
    /\ cb.state = "Open"
    /\ now < cb.until

C6_HalfOpenTrial ==
    [][/\ (cb.state = "Open" /\ now >= cb.until /\ cb_log'.started # cb_log.started) =>
            /\ cb'.state = "HalfOpen"
            /\ cb_log'.last = "admitted"
            /\ cb_log'.invoked = cb_log.invoked + 1
       /\ (cb.state = "HalfOpen" /\ cb_log'.last = "ok") =>
            /\ cb'.state = "Closed"
            /\ cb'.consecutive_failures = 0
       /\ (cb.state = "HalfOpen" /\ cb_log'.last = "failed") =>
            /\ cb'.state = "Open"
            /\ cb'.until = now + cb_cfg.recovery_timeout_ms
      ]_vars

\* C6 witness: a trial call failed after the deadline had passed and the
\* circuit is open again, with a later deadline.
C6_Witness ==
    /\ cb_log.last = "failed"
    /\ cb.state = "Open"
    /\ cb.consecutive_failures > cb_cfg.failure_threshold
    /\ cb_cfg.recovery_timeout_ms > 0
    /\ now > cb_cfg.recovery_timeout_ms

(***************************************************************************)
(* Properties of the data client and the handlers (SpecClient)             *)
(***************************************************************************)

\* C1: when get_all_stations found an expired copy in the reference cache
\* and the fetch of the reference feed failed, it returns Ok with the
\* stations of that copy; it returns an error only when the reference
\* cache held no entry at all.
C1_StaleFallback ==
    cl.pc = "return" =>
        /\ (cl.ref_failed /\ cl.ref_stale # None) =>
              /\ cl.result.tag = "Ok"
              /\ cl.result.val.reference = cl.ref_stale.val
        /\ cl.result.tag = "Err" => ~cl.ref_present

\* the request holding the client is suspended: in an upstream request or in
\* the backoff sleep between two attempts
Suspended == cl.pc = "await" /\ ex.pc \in {"call", "sleep"}

\* C7: while a request is suspended in an upstream fetch or a backoff sleep,
\* no other request waits for a lock the suspended request holds.
C7_SuspendedHoldsNoLock ==
    Suspended => \A h \in Handlers : h_pc[h].pc = "wait" => dc_lock.writer = NoHandler

\* C11: when get_all_stations(true) has its reference data and the fetch of
\* the real-time feed failed with nothing fresh in the real-time cache, it
\* returns Ok with the reference records alone (no real-time part); the
\* real-time failure is never the error of the call.
C11_RealtimeFailureTolerated ==
    (cl.pc = "return" /\ cl.rt_failed) =>
        /\ cl.include_realtime
        /\ cl.result = Ok(Stations(cl.reference, None))

\* C11 witness: a call with include_realtime fetched a non-empty reference
\* snapshot, then its real-time fetch failed, and it has returned.
C11_Witness ==
    /\ cl.pc = "return"
    /\ cl.include_realtime
    /\ cl.rt_failed
    /\ ~cl.ref_failed
    /\ cl.reference # <<>>
    /\ cl.result.tag = "Ok"

\* the entry of a feed's cache is there and not expired
Fresh(feed) ==
    /\ FeedKey(feed) \in DOMAIN FeedCache(feed)
    /\ ~is_expired(FeedCache(feed)[FeedKey(feed)], now)

\* the snapshot of a feed a call went on with after the step
UsedSnapshot(feed, x) ==
    IF feed = "reference"
    THEN IF x.pc = "return" THEN x.result.val.reference ELSE x.reference
    ELSE x.result.val.realtime.val

\* C12: while a feed's cache entry is unexpired, get_all_stations goes on
\* with the cached value and sends no upstream request for the feed; a
\* request for a feed is under way only when the feed's entry is absent or
\* expired; and a successful fetch stores what it returns under the feed's
\* key with expires_at = now + the feed's TTL, the other cache untouched.
C12_CacheBeforeFetch ==
    /\ [](cl.pc \in {"page", "await"} => ~Fresh(cl.feed))
    /\ [][(cl.pc = "check" /\ Fresh(cl.feed) /\ cl' # cl) =>
            /\ cl'.pc \in {"check", "return"}
            /\ cl'.result.tag # "Err"
            /\ UsedSnapshot(cl.feed, cl') = FeedCache(cl.feed)[FeedKey(cl.feed)].data
            /\ ex' = ex
            /\ reference_cache' = reference_cache
            /\ realtime_cache' = realtime_cache]_vars
    /\ [][(/\ cl.pc = "await" /\ cl'.pc \in {"check", "return"}
           /\ IF cl.feed = "reference" THEN ~cl'.ref_failed ELSE ~cl'.rt_failed) =>
            IF cl.feed = "reference"
            THEN /\ DOMAIN reference_cache' = {REFERENCE_KEY}
                 /\ reference_cache'[REFERENCE_KEY] =
                          [data |-> UsedSnapshot("reference", cl'),
                           expires_at |-> now + REFERENCE_CACHE_TTL_MINUTES]
                 /\ realtime_cache' = realtime_cache
            ELSE /\ DOMAIN realtime_cache' = {REALTIME_KEY}
                 /\ realtime_cache'[REALTIME_KEY] =
                          [data |-> UsedSnapshot("realtime", cl'),
                           expires_at |-> now + REALTIME_CACHE_TTL_MINUTES]
                 /\ reference_cache' = reference_cache]_vars

\* C12 witness: a call answered from a fresh reference entry and has just
\* stored a fetched real-time snapshot, the reference entry still there.
C12_Witness ==
    /\ cl.pc = "return"
    /\ cl.include_realtime
    /\ ~cl.ref_failed /\ ~cl.rt_failed
    /\ cl.ref_present /\ cl.ref_stale = None
    /\ REALTIME_KEY \in DOMAIN realtime_cache
    /\ realtime_cache[REALTIME_KEY].expires_at = now + REALTIME_CACHE_TTL_MINUTES
    /\ REFERENCE_KEY \in DOMAIN reference_cache
    /\ reference_cache[REFERENCE_KEY].expires_at < now + REFERENCE_CACHE_TTL_MINUTES
    /\ cl.result.val.realtime # None

(***************************************************************************)
(* Properties of the fetches (SpecPaging)                                  *)
(***************************************************************************)

\* C13: the pagination loop of a fetch ends whatever the upstream answers:
\* a fetch that is in its loop (about to request a page or waiting for one
\* from an upstream that does answer) eventually leaves the loop, also when
\* every page is a full page.
C13_PaginationEnds ==
    (cl.pc = "page") ~> (cl.pc \notin {"page", "await"} \/ ex.pc = "pending")

\* C14: a request of a fetch on an upstream that never answers is ended by
\* some step of the fetch (a timer firing, the attempt failing): whenever
\* execute waits on such a request, a step of the retry loop or of the
\* fetch is possible.
C14_FetchBounded ==
    (cl.pc = "await" /\ ex.pc = "pending") =>
        ENABLED (ExecuteInvoke \/ ExecuteWake \/ ClientPageDone)

(***************************************************************************)
(* Properties of the merged stations (SpecMerge)                           *)
(***************************************************************************)

\* C19: get_all_stations(true) with both snapshots returns one station per
\* record of the reference snapshot, in its order; a station has real_time
\* = Some(s) exactly when the real-time snapshot has an entry for its
\* station code, and s is that entry.
C19_MergeByCode ==
    mg.pc = "done" =>
        /\ Len(mg.stations) = Len(mg.reference)
        /\ \A i \in 1..Len(mg.stations) :
              LET st == mg.stations[i]
                  code == mg.reference[i].station_code
              IN  /\ st.reference = mg.reference[i]
                  /\ st.real_time # None <=> code \in DOMAIN mg.realtime
                  /\ code \in DOMAIN mg.realtime =>
                        st.real_time = Some(mg.realtime[code])

\* C19 witness: two stations were returned, the first with real-time status
\* and the second without, from a real-time snapshot that also has a
\* station code the reference snapshot lacks.
C19_Witness ==
    /\ mg.pc = "done"
    /\ Len(mg.stations) = 2
    /\ mg.stations[1].real_time # None
    /\ mg.stations[2].real_time = None
    /\ \E c \in DOMAIN mg.realtime :
          \A i \in 1..Len(mg.reference) : mg.reference[i].station_code # c

\* the invariants of a station: station code, capacity, and bikes + docks
\* within the capacity
StationInvariants(st) ==
    /\ st.reference.station_code # ""
    /\ st.reference.capacity > 0
    /\ st.reference.capacity <= MAX_CAPACITY
    /\ st.real_time # None =>
          Min(st.real_time.val.mechanical + st.real_time.val.electric,
              U16_MODULUS - 1)
            + st.real_time.val.available_docks <= st.reference.capacity

\* C20: every station get_all_stations returns satisfies the invariants of
\* a station; the records that violate one are not in the result.
C20_StationsValid ==
    mg.pc = "done" =>
        \A i \in 1..Len(mg.stations) : StationInvariants(mg.stations[i])

(***************************************************************************)
(* Properties of the tools (SpecTools)                                     *)
(***************************************************************************)

\* C21: get_station_by_code, once the merged station set is obtained,
\* returns Ok(None) when no station of the set has the code, and otherwise
\* Ok(Some(station)) for a station of the set with that code.
C21_StationByCode ==
    (tc.pc = "done" /\ tc.tool = "get_station_by_code" /\ tc.fetched = "ok") =>
        LET code == tc.input.station_code
            present == \E i \in 1..Len(tc.all_stations) :
                          tc.all_stations[i].reference.station_code = code
        IN  /\ tc.output.tag = "Ok"
            /\ tc.output.val.found = present
            /\ ~present => tc.output.val.station = None
            /\ present =>
                  /\ tc.output.val.station # None
                  /\ tc.output.val.station.val.reference.station_code = code
                  /\ \E i \in 1..Len(tc.all_stations) :
                        tc.all_stations[i] = tc.output.val.station.val

\* C21 witness: a call returned the station of a code that is last in a
\* set of several stations.
C21_Witness ==
    /\ tc.pc = "done"
    /\ tc.tool = "get_station_by_code"
    /\ tc.fetched = "ok"
    /\ Len(tc.all_stations) > 1
    /\ tc.output.val.station # None
    /\ tc.output.val.station.val = tc.all_stations[Len(tc.all_stations)]

\* C22: for every input of find_nearby_stations with radius_meters above
\* MAX_SEARCH_RADIUS, whatever its other fields, the call fails with
\* SearchRadiusTooLarge carrying the radius and the maximum, without taking
\* the data-client lock and without calling get_all_stations.
C22_RadiusTooLarge ==
    (tc.tool = "find_nearby_stations"
        /\ tc.input.radius_meters > MAX_SEARCH_RADIUS) =>
        /\ tc.pc = "done"
        /\ tc.output = Failed([kind |-> "SearchRadiusTooLarge",
                               radius |-> tc.input.radius_meters,
                               max |-> 5000])
        /\ ~tc.locked
        /\ tc.fetched = "no"
        /\ reference_cache = EmptyMap
        /\ realtime_cache = EmptyMap

\* C22 witness: a call with a radius above the maximum, a limit above the
\* maximum and a query point outside the metro rectangle was rejected.
C22_Witness ==
    /\ tc.pc = "done"
    /\ tc.tool = "find_nearby_stations"
    /\ tc.input.radius_meters > MAX_SEARCH_RADIUS
    /\ tc.input.limit > MAX_RESULT_LIMIT
    /\ ~is_valid_paris_metro(Coordinates_new(tc.input.latitude, tc.input.longitude))
    /\ tc.output.tag = "Err"

\* the stations of the fetched set that find_nearby_stations is to keep
Qualifies(station, input) ==
    /\ AsMetres(distance_to(Coordinates_new(input.latitude, input.longitude),
                            station.reference.coordinates)) <= input.radius_meters
    /\ station.real_time # None => station.real_time.val.status = "Open"
    /\ (input.availability_filter # None
          /\ input.availability_filter.val.bike_type # None) =>
          has_available_bikes(station, input.availability_filter.val.bike_type.val)

\* C24: find_nearby_stations with valid input returns the first `limit`
\* of the stations within the radius, operational and matching the bike
\* type filter, in ascending distance: every returned station qualifies,
\* no two are the same, a qualifying station left out is no nearer than a
\* returned one, and total_found is the number returned.
C24_NearbyResult ==
    (tc.pc = "done" /\ tc.tool = "find_nearby_stations" /\ tc.fetched = "ok") =>
        LET out == tc.output.val.stations
            all == {tc.all_stations[i] : i \in 1..Len(tc.all_stations)}
            qualifying == {s \in all : Qualifies(s, tc.input)}
            returned == {out[k].station : k \in 1..Len(out)}
            Distance(s) ==
                AsMetres(distance_to(Coordinates_new(tc.input.latitude,
                                                     tc.input.longitude),
                                     s.reference.coordinates))
        IN  /\ tc.output.tag = "Ok"
            /\ Len(out) = Min(tc.input.limit, Cardinality(qualifying))
            /\ Cardinality(returned) = Len(out)
            /\ returned \subseteq qualifying
            /\ \A k \in 1..Len(out) : out[k].distance_meters = Distance(out[k].station)
            /\ \A k \in 1..Len(out) : \A l \in 1..Len(out) :
                  k < l => out[k].distance_meters <= out[l].distance_meters
            /\ \A s \in qualifying \ returned : \A t \in returned :
                  Distance(s) >= Distance(t)
            /\ tc.output.val.search_metadata.total_found = Len(out)

\* C24 witness: a call returned fewer stations than were fetched, leaving
\* out a station beyond the radius or not operational or without the
\* requested bikes, and one that qualified but was beyond the limit.
C24_Witness ==
    /\ tc.pc = "done"
    /\ tc.tool = "find_nearby_stations"
    /\ tc.fetched = "ok"
    /\ Len(tc.output.val.stations) = tc.input.limit
    /\ \E i \in 1..Len(tc.all_stations) : ~Qualifies(tc.all_stations[i], tc.input)
    /\ \E i \in 1..Len(tc.all_stations) :
          /\ Qualifies(tc.all_stations[i], tc.input)
          /\ \A k \in 1..Len(tc.output.val.stations) :
                tc.output.val.stations[k].station # tc.all_stations[i]

\* C25: find_nearby_stations returns its stations in ascending distance,
\* and stations at the same distance in ascending station code.
C25_TiesByStationCode ==
    (tc.pc = "done" /\ tc.tool = "find_nearby_stations" /\ tc.fetched = "ok") =>
        LET out == tc.output.val.stations
        IN  \A k \in 1..Len(out) : \A l \in 1..Len(out) :
               k < l =>
                  \/ out[k].distance_meters < out[l].distance_meters
                  \/ /\ out[k].distance_meters = out[l].distance_meters
                     /\ CodePoint[out[k].station.reference.station_code]
                          < CodePoint[out[l].station.reference.station_code]

\* the error kinds of an invalid input
InvalidInputKinds ==
    {"Validation", "InvalidCoordinates", "SearchRadiusTooLarge",
     "ResultLimitExceeded"}

\* C26: search_stations_by_name rejects a query shorter than 2 characters
\* with an invalid-input error kind, neither internal nor retryable, before
\* the data-client lock is taken and before any fetch.
C26_ShortQueryRejected ==
    (tc.tool = "search_stations_by_name" /\ Len(tc.input.query) < 2) =>
        /\ tc.pc = "done"
        /\ tc.output.tag = "Err"
        /\ tc.output.err.kind \in InvalidInputKinds
        /\ ~Error_is_retryable(tc.output.err)
        /\ ~tc.locked
        /\ tc.fetched = "no"

\* does the name of a station match a query
MatchesQuery(station, query, fuzzy) ==
    IF fuzzy
    THEN contains(to_lowercase(station.reference.name), to_lowercase(query))
    ELSE starts_with(to_lowercase(station.reference.name), to_lowercase(query))

RECURSIVE SumOver(_, _)
\* the sum of the values a function takes on a set
SumOver(S, f) ==
    IF S = {} THEN 0
    ELSE LET x == CHOOSE y \in S : TRUE
         IN  f[x] + SumOver(S \ {x}, f)

InMetroRectangle(c) ==
    /\ 4870000 <= c.latitude /\ c.latitude <= 4900000
    /\ 200000 <= c.longitude /\ c.longitude <= 260000

\* within 50 km of the city hall
WithinServiceRadius(c) == distance_to(c, PARIS_CITY_HALL) <= 500000

\* what the coordinate validation of a list of points answers: the first
\* point outside the rectangle, else the first beyond the service radius
CoordinateVerdict(points) ==
    IF \E i \in 1..Len(points) : ~InMetroRectangle(points[i])
    THEN "InvalidCoordinates"
    ELSE IF \E i \in 1..Len(points) : ~WithinServiceRadius(points[i])
    THEN "OutsideServiceArea"
    ELSE "valid"

\* the points a call validates, once its other checks are passed
ValidatedPoints ==
    CASE tc.tool = "find_nearby_stations"
            /\ tc.input.radius_meters <= MAX_SEARCH_RADIUS
            /\ tc.input.limit <= MAX_RESULT_LIMIT ->
                << Coordinates_new(tc.input.latitude, tc.input.longitude) >>
      [] tc.tool = "plan_bike_journey" -> << tc.input.origin, tc.input.destination >>
      [] OTHER -> << >>

C29_NoSameStationPair ==
    (tc.pc = "done" /\ tc.tool = "plan_bike_journey" /\ tc.fetched = "ok") =>
        \A k \in 1..Len(tc.output.val.journey.recommendations) :
           LET r == tc.output.val.journey.recommendations[k]
           IN  r.pickup_station.reference.station_code
                  # r.dropoff_station.reference.station_code

\* C30: the confidence score of a recommendation is strictly decreasing in
\* each walking distance: the same recommendation with a longer walk to
\* the pickup, or a longer walk from the dropoff, scores strictly less,
\* and with a shorter one strictly more.
C30_ConfidenceDecreasing ==
    (tc.pc = "done" /\ tc.tool = "plan_bike_journey" /\ tc.fetched = "ok") =>
        \A k \in 1..Len(tc.output.val.journey.recommendations) :
           LET r == tc.output.val.journey.recommendations[k]
               max_walk == PreferencesOf(tc.input).max_walk_distance
           IN  \A walk \in 0..max_walk :
                  /\ walk > r.walk_to_pickup =>
                        FracLess(ConfidenceScore(walk, r.walk_from_dropoff, max_walk),
                                 r.confidence_score)
                  /\ walk < r.walk_to_pickup =>
                        FracLess(r.confidence_score,
                                 ConfidenceScore(walk, r.walk_from_dropoff, max_walk))
                  /\ walk > r.walk_from_dropoff =>
                        FracLess(ConfidenceScore(r.walk_to_pickup, walk, max_walk),
                                 r.confidence_score)
                  /\ walk < r.walk_from_dropoff =>
                        FracLess(r.confidence_score,
                                 ConfidenceScore(r.walk_to_pickup, walk, max_walk))

\* C30 witness: a recommendation with the pickup at 35 m and the dropoff at
\* 42 m, for a maximal walk of 500 m.
C30_Witness ==
    /\ tc.pc = "done"
    /\ tc.tool = "plan_bike_journey"
    /\ tc.fetched = "ok"
    /\ PreferencesOf(tc.input).max_walk_distance = 500
    /\ \E k \in 1..Len(tc.output.val.journey.recommendations) :
          /\ tc.output.val.journey.recommendations[k].walk_to_pickup = 35
          /\ tc.output.val.journey.recommendations[k].walk_from_dropoff = 42


\* C31: the confidence score of a recommendation is strictly increasing, up
\* to the cap 1.0, in availability: against the recommendation of the same
\* call over any other station list, with the same two walking distances, a
\* pickup station with more available bikes (and a dropoff station with no
\* fewer docks), or a dropoff station with more available docks (and a
\* pickup station with no fewer bikes), scores strictly more unless the
\* score has reached the cap.
C31_ConfidenceIncreasesWithAvailability ==
    (tc.pc = "done" /\ tc.tool = "plan_bike_journey" /\ tc.fetched = "ok") =>
        \A k \in 1..Len(tc.output.val.journey.recommendations) :
        \A other \in StationLists :
           LET r == tc.output.val.journey.recommendations[k]
               others == Recommendations(PickupCandidates(other, tc.input),
                                         DropoffCandidates(other, tc.input),
                                         PreferencesOf(tc.input))
               Bikes(rec) ==
                   BikeAvailability_total(rec.pickup_station.real_time.val.bikes)
               Docks(rec) == rec.dropoff_station.real_time.val.available_docks
           IN  \A j \in 1..Len(others) :
                  ( /\ others[j].walk_to_pickup = r.walk_to_pickup
                    /\ others[j].walk_from_dropoff = r.walk_from_dropoff
                    /\ Bikes(others[j]) >= Bikes(r)
                    /\ Docks(others[j]) >= Docks(r)
                    /\ Bikes(others[j]) > Bikes(r) \/ Docks(others[j]) > Docks(r) )
                  => \/ FracLess(r.confidence_score, others[j].confidence_score)
                     \/ /\ ~others[j].confidence_score.nan
                        /\ ~FracLess(others[j].confidence_score, Frac(1, 1))


(***************************************************************************)
(* Properties of the circuit breaker under concurrent calls (SpecBreaker)  *)
(***************************************************************************)

\* C32: a call entered at or after the deadline of an Open circuit runs its
\* operation (the trial), and every call entered while a trial call has not
\* yet returned is rejected and runs no operation.
C32_HalfOpenOneTrial ==
    [][/\ (cb.state = "Open" /\ now >= cb.until
             /\ cb_log'.started # cb_log.started) =>
            /\ cb'.state = "HalfOpen"
            /\ cb_log'.last = "admitted"
            /\ cb_log'.invoked = cb_log.invoked + 1
       /\ (/\ cb.state = "HalfOpen"
           /\ \E t \in Callers : cb_call[t].trial /\ cb_call[t].pc # "idle"
           /\ cb_log'.started # cb_log.started) =>
            /\ cb_log'.last = "rejected"
            /\ cb_log'.invoked = cb_log.invoked
      ]_vars

\* C33: an Open circuit stays Open until a call is entered at or after its
\* deadline, which makes it HalfOpen; a call entered before the deadline is
\* rejected; and no step taken while the circuit is Open (the return of a
\* call admitted before it opened) lowers the failure counter.
C33_OpenUntilDeadline ==
    [][cb.state = "Open" =>
         /\ \/ cb'.state = "Open"
            \/ /\ cb'.state = "HalfOpen"
               /\ now >= cb.until
               /\ cb_log'.started = cb_log.started + 1
         /\ (now < cb.until /\ cb_log'.started # cb_log.started) =>
               /\ cb_log'.last = "rejected"
               /\ cb_log'.invoked = cb_log.invoked
         /\ cb'.consecutive_failures >= cb.consecutive_failures
      ]_vars

\* C38: whenever the circuit is Open or HalfOpen, the failure counter is at
\* least failure_threshold.
C38_OpenImpliesThreshold ==
    cb.state \in {"Open", "HalfOpen"} =>
        cb.consecutive_failures >= cb_cfg.failure_threshold


(***************************************************************************)
(* Properties of retry_with_backoff (SpecRetry)                            *)
(***************************************************************************)

\* C34: after an attempt of retry_with_backoff that outlived timeout_ms,
\* the loop sleeps and goes on to a new attempt as long as attempts remain
\* (fewer than max_attempts were made); when it was the last attempt
\* allowed the call has returned Error::Timeout carrying the operation name
\* and timeout_ms, not RetryExhausted.
C34_TimeoutRetriedThenSurfaced ==
    (rb.pc # "idle"
       /\ rb.outcome = Failed(TimeoutErr(rb.operation_name, rb.cfg.timeout_ms))) =>
        IF rb.calls < rb.cfg.max_attempts
        THEN \/ rb.pc = "sleep" /\ rb.sleeps = rb.calls - 1
                /\ rb.last_error = Some(rb.outcome.err)
             \/ rb.pc = "call" /\ rb.sleeps = rb.calls /\ rb.attempt = rb.calls
        ELSE /\ rb.pc = "done"
             /\ rb.result.tag = "Err"
             /\ rb.result.err.kind = "Timeout"
             /\ rb.result.err.operation = rb.operation_name
             /\ rb.result.err.timeout_ms = rb.cfg.timeout_ms
             /\ rb.result.err.kind # "RetryExhausted"

\* C34 witness: the third and last attempt timed out after an earlier
\* timed-out attempt had been followed by a sleep, and the call returned
\* Error::Timeout.
C34_Witness ==
    /\ rb.pc = "done"
    /\ rb.cfg.max_attempts = 3
    /\ rb.calls = 3
    /\ rb.sleeps = 2
    /\ rb.last_error = Some(TimeoutErr(rb.operation_name, rb.cfg.timeout_ms))
    /\ rb.outcome = Failed(TimeoutErr(rb.operation_name, rb.cfg.timeout_ms))
    /\ rb.result = rb.outcome

\* C37: when retry_with_backoff has returned and its last invocation (if
\* any) failed with a retryable error that is not a timeout, the result is
\* RetryExhausted with attempts = max_attempts = the number of invocations,
\* not that last error; and no sleep between attempts is longer than
\* max_delay_ms.
C37_RetryExhausted ==
    /\ (/\ rb.pc = "done"
        /\ \/ rb.outcome = NoResult
           \/ /\ rb.outcome.tag = "Err"
              /\ Error_is_retryable(rb.outcome.err)
              /\ rb.outcome.err.kind # "Timeout") =>
          /\ rb.result = Failed(RetryExhaustedErr(rb.operation_name,
                                                  rb.cfg.max_attempts))
          /\ rb.result.err.attempts = rb.calls
          /\ rb.result # rb.outcome
    /\ rb.pc = "sleep" => rb.delay <= rb.cfg.max_delay_ms

\* C37 witness: three invocations all failed with Http errors, two sleeps
\* were taken, and the call returned RetryExhausted.
C37_Witness ==
    /\ rb.pc = "done"
    /\ rb.cfg.max_attempts = 3
    /\ rb.calls = 3
    /\ rb.sleeps = 2
    /\ rb.outcome = Failed(HttpErr(503))
    /\ rb.result.tag = "Err"
    /\ rb.result.err.kind = "RetryExhausted"

\* C40: retry_with_backoff has invoked the operation at least once by the
\* time it returns, whatever the configuration.
C40_AttemptsOnce ==
    rb.pc = "done" => rb.calls >= 1


(***************************************************************************)
(* Properties of the paginated fetches (SpecFetch)                         *)
(***************************************************************************)
RequiredFields(feed) ==
    IF feed = "reference"
    THEN {"stationcode", "name", "capacity", "coordonnees_geo"}
    ELSE {"stationcode"}

\* the record has all the fields its feed requires
WellFormed(feed, record) == \A f \in RequiredFields(feed) : record[f] # None

\* the positions of the well-formed records of the upstream feed
WellFormedAt == {i \in 1..Len(fd.upstream) : WellFormed(fd.feed, fd.upstream[i])}

\* what a well-formed record stands for: a station reference, or the
\* status of a station (a missing count reads as 0)
StationOf(record) ==
    [station_code |-> record.stationcode.val, name |-> record.name.val,
     coordinates |-> record.coordonnees_geo.val, capacity |-> record.capacity.val]
StatusOf(record) ==
    [mechanical |-> IF record.mechanical = None THEN 0 ELSE record.mechanical.val,
     electric |-> IF record.ebike = None THEN 0 ELSE record.ebike.val,
     available_docks |-> IF record.numdocksavailable = None THEN 0
                         ELSE record.numdocksavailable.val]

\* the call went to the upstream and returned Ok
FetchedOk == fd.pc = "done" /\ fd.requests # <<>> /\ fd.result.tag = "Ok"

\* the number of records the upstream holds at and after an offset, up to
\* the page size
ServedAt(offset) == Min(API_LIMIT, Len(fd.upstream) - Min(offset, Len(fd.upstream)))

\* the requests are for offsets 0, 100, 200, ... with limit 100; every page
\* before the last one requested was full, and a fetch that returned Ok
\* ended on a page that was empty or short
PagesInOrder ==
    /\ \A k \in 1..Len(fd.requests) :
          fd.requests[k] = [limit |-> 100, offset |-> 100 * (k - 1)]
    /\ \A k \in 1..(Len(fd.requests) - 1) : ServedAt(100 * (k - 1)) = 100
    /\ (fd.pc = "page" /\ fd.requests # <<>>) =>
          ServedAt(100 * (Len(fd.requests) - 1)) = 100
    /\ FetchedOk => ServedAt(100 * (Len(fd.requests) - 1)) < 100

\* the result of a fetch that returned Ok holds what the well-formed records
\* of all the pages stand for: the reference stations in feed order, the
\* real-time statuses by station code, the last record of a code standing
ResultHoldsAllPages ==
    FetchedOk =>
        IF fd.feed = "reference"
        THEN LET IsWellFormed(record) == WellFormed("reference", record)
                 kept == SelectSeq(fd.upstream, IsWellFormed)
             IN  fd.result.val = [j \in 1..Len(kept) |-> StationOf(kept[j])]
        ELSE /\ DOMAIN fd.result.val =
                   {fd.upstream[i].stationcode.val : i \in WellFormedAt}
             /\ \A i \in WellFormedAt :
                   (\A h \in WellFormedAt :
                       fd.upstream[h].stationcode = fd.upstream[i].stationcode
                          => h <= i)
                   => fd.result.val[fd.upstream[i].stationcode.val]
                         = StatusOf(fd.upstream[i])

\* C35: pages are requested at offsets 0, 100, 200, ... in that order with
\* limit 100, the loop stops after the first page that is empty or holds
\* fewer than 100 records, and the result holds the parsed records of every
\* page fetched: a reference feed of N well-formed records yields N
\* stations, a real-time feed of N well-formed records one status per
\* station code occurring in it.
C35_PaginationCollectsPages ==
    /\ PagesInOrder
    /\ ResultHoldsAllPages
    /\ (FetchedOk /\ WellFormedAt = 1..Len(fd.upstream)) =>
          IF fd.feed = "reference"
          THEN Len(fd.result.val) = Len(fd.upstream)
          ELSE Cardinality(DOMAIN fd.result.val) =
                  Cardinality({fd.upstream[i].stationcode.val :
                                  i \in 1..Len(fd.upstream)})

\* C35 witness: a reference feed of 201 well-formed records was fetched in
\* three requests, two full pages and a page of one record, and all 201
\* stations were returned.
C35_Witness ==
    /\ FetchedOk
    /\ fd.feed = "reference"
    /\ Len(fd.upstream) = 201
    /\ WellFormedAt = 1..201
    /\ Len(fd.requests) = 3
    /\ Len(fd.result.val) = 201

\* C35 as stated: as above, and a feed of N well-formed records yields N
\* results, for the real-time feed as for the reference feed.
C35_YieldsAllRecords ==
    /\ PagesInOrder
    /\ ResultHoldsAllPages
    /\ (FetchedOk /\ WellFormedAt = 1..Len(fd.upstream)) =>
          IF fd.feed = "reference"
          THEN Len(fd.result.val) = Len(fd.upstream)
          ELSE Cardinality(DOMAIN fd.result.val) = Len(fd.upstream)

C39_NoPartialCache ==
    /\ fd.response.tag = "Err" =>
          /\ fd.pc = "done"
          /\ fd.result = fd.response
          /\ <<reference_cache, realtime_cache>> = fd.entered
    /\ <<reference_cache, realtime_cache>> # fd.entered =>
          /\ FetchedOk
          /\ fd.response.tag = "Ok"
          /\ Len(fd.response.val) < 100
          /\ FeedCache(fd.feed)[FeedKey(fd.feed)].data = fd.result.val
          /\ fd.feed = "reference" => realtime_cache = fd.entered[2]
          /\ fd.feed = "realtime" => reference_cache = fd.entered[1]

\* C39 witness: the third page failed after two full pages had been
\* accumulated; the call returned the error and the expired entry of the
\* cache is still the one it held.
C39_Witness ==
    /\ fd.pc = "done"
    /\ fd.result.tag = "Err"
    /\ Len(fd.requests) = 3
    /\ fd.feed = "realtime"
    /\ REALTIME_KEY \in DOMAIN realtime_cache
    /\ realtime_cache = fd.entered[2]
    /\ Cardinality(DOMAIN fd.all) = 200

=============================================================================
